---- MODULE Spec2Model ----
(***************************************************************************)
(* dl-myo: the session state machine of myo.core.MyoClient over the BLE    *)
(* transport, with the command codec of myo.commands.                      *)
(*                                                                         *)
(* A caller operation (setup, start, stop, ...) is one action.  The        *)
(* operation runs to completion inside the action; every transport call    *)
(* it awaits has a nondeterministic outcome, so an operation is modelled   *)
(* as the SET of contexts it can end in, built statement by statement.     *)
(* A context is the part of the object and of the transport the running    *)
(* operation reads and writes, plus the log of transport calls it issued   *)
(* (tr), the exception in flight (err), the bytes last read (val) and the   *)
(* value returned (ret: <<>> for None, <<v>> for v).                       *)
(***************************************************************************)
EXTENDS Integers, Sequences, FiniteSets, TLC

VARIABLES
    m,                \* MyoClient.m: the discovered Myo, or None
    aggregate_all,    \* MyoClient.aggregate_all
    aggregate_emg,    \* MyoClient.aggregate_emg
    classifier_mode,  \* MyoClient.classifier_mode, or None
    emg_mode,         \* MyoClient.emg_mode, or None
    imu_mode,         \* MyoClient.imu_mode, or None
    client,           \* MyoClient._client: a BleakClient, or None
    fv_aggregated,    \* MyoClient.fv_aggregated: <<>> for None, <<d>> for the FVData d
    imu_aggregated,   \* MyoClient.imu_aggregated: <<>> for None, <<d>> for the IMUData d
    link,             \* transport: the BleakClient is connected
    subscribed,       \* transport: handle -> callback notified, or None
    pc,               \* position of the caller: "scan", "idle", "done", "lost"
    call,             \* the operation that completed last and its arguments
    trace,            \* transport calls issued by that operation, in order
    result,           \* None when it returned, else the exception it raised
    ret,              \* the value it returned: <<>> for None, <<v>> for v
    calls,            \* number of caller operations so far
    lastStart,        \* the stored triple and the handles of the last successful start()
    lock,             \* MyoClient._lock: the notify_callback task that holds it, or 0
    tasks,            \* the notify_callback tasks the transport has created, by number
    hooks,            \* calls of the consumer's on_* hooks, in order
    ingested,         \* samples on_data has stored, in order
    buffers           \* the data argument of each notify_callback task

vars == <<m, aggregate_all, aggregate_emg, classifier_mode, emg_mode, imu_mode,
          client, fv_aggregated, imu_aggregated, link, subscribed,
          pc, call, trace, result, ret, calls, lastStart,
          lock, tasks, hooks, ingested, buffers>>

\* what the delivery of notifications reads and writes besides the two slots
notifyVars == <<lock, tasks, hooks, ingested, buffers>>

\* Python's None
None == "None"

\* ---------------------------------------------------------------- bounds
\* caller operations per session
MaxCalls == 4

\* ------------------------------------------------------- myo/handle.py
BATTERY_LEVEL == 16
COMMAND == 24
IMU_DATA == 27
MOTION_EVENT == 30
CLASSIFIER_EVENT == 34
FV_DATA == 38
EMG0_DATA == 42
EMG1_DATA == 45
EMG2_DATA == 48
EMG3_DATA == 51

\* the characteristics that notify or indicate
NotifyHandles == {BATTERY_LEVEL, IMU_DATA, MOTION_EVENT, CLASSIFIER_EVENT, FV_DATA,
                  EMG0_DATA, EMG1_DATA, EMG2_DATA, EMG3_DATA}

\* -------------------------------------------------------- myo/types.py
ClassifierMode == {"DISABLED", "ENABLED"}
EMGMode == {"NONE", "SEND_FILT", "SEND_EMG", "SEND_RAW"}
IMUMode == {"NONE", "SEND_DATA", "SEND_EVENTS", "SEND_ALL", "SEND_RAW"}
SleepMode == {"NORMAL", "NEVER_SLEEP"}
VibrationType == {"NONE", "SHORT", "MEDIUM", "LONG"}
UnlockType == {"LOCK", "TIMED", "HOLD"}
UserActionType == {"SINGLE"}

ClassifierModeValue(x) == CASE x = "DISABLED" -> 0 [] x = "ENABLED" -> 1
EMGModeValue(x) ==
    CASE x = "NONE" -> 0 [] x = "SEND_FILT" -> 1 [] x = "SEND_EMG" -> 2 [] x = "SEND_RAW" -> 3
IMUModeValue(x) ==
    CASE x = "NONE" -> 0 [] x = "SEND_DATA" -> 1 [] x = "SEND_EVENTS" -> 2
      [] x = "SEND_ALL" -> 3 [] x = "SEND_RAW" -> 4
SleepModeValue(x) == CASE x = "NORMAL" -> 0 [] x = "NEVER_SLEEP" -> 1
VibrationTypeValue(x) ==
    CASE x = "NONE" -> 0 [] x = "SHORT" -> 1 [] x = "MEDIUM" -> 2 [] x = "LONG" -> 3
UnlockTypeValue(x) == CASE x = "LOCK" -> 0 [] x = "TIMED" -> 1 [] x = "HOLD" -> 2
UserActionTypeValue(x) == CASE x = "SINGLE" -> 0

\* ---------------------------------------------------- myo/constants.py
\* The indicator colours core.py imports; each is an [r, g, b] list.
RGB_CYAN == <<0, 255, 255>>
RGB_GREEN == <<0, 255, 0>>
RGB_ORANGE == <<255, 165, 0>>
RGB_PINK == <<255, 192, 203>>

\* ----------------------------------------------------- myo/commands.py
\* A command is its opcode and its payload bytes.
\* a payload in the order of the constructor's arguments
SetMode_ArgumentOrder(cm, em, im) ==
    [cmd |-> 1, payload |-> <<ClassifierModeValue(cm), EMGModeValue(em), IMUModeValue(im)>>]

SetMode(cm, em, im) ==
    [cmd |-> 1, payload |-> <<EMGModeValue(em), IMUModeValue(im), ClassifierModeValue(cm)>>]
Vibrate(vibration_type) == [cmd |-> 3, payload |-> <<VibrationTypeValue(vibration_type)>>]
DeepSleep == [cmd |-> 4, payload |-> <<>>]
LED(logo, line) == [cmd |-> 6, payload |-> logo \o line]
\* a payload with the low byte of the duration first
Vibrate2_LowByteFirst(duration, strength) ==
    [cmd |-> 7, payload |-> <<duration % 256, (duration \div 256) % 256, strength>>]

Vibrate2(duration, strength) ==
    [cmd |-> 7, payload |-> <<(duration \div 256) % 256, duration % 256, strength>>]
SetSleepMode(sleep_mode) == [cmd |-> 9, payload |-> <<SleepModeValue(sleep_mode)>>]
Unlock(unlock_type) == [cmd |-> 10, payload |-> <<UnlockTypeValue(unlock_type)>>]
UserAction(user_action_type) ==
    [cmd |-> 11, payload |-> <<UserActionTypeValue(user_action_type)>>]

\* LED.__init__ raises ValueError: a colour that has not three components
LED_init_raises(logo, line) == Len(logo) # 3 \/ Len(line) # 3

\* bytearray(values) raises ValueError: a value that is no byte
bytearray_raises(values) == \E i \in 1..Len(values) : values[i] \notin 0..255

\* a frame whose header is the opcode alone
CommandData_NoLength(c) == <<c.cmd>> \o c.payload

\* Command.data: the 2-byte header [cmd, len(payload)], then the payload
CommandData(c) == <<c.cmd, Len(c.payload)>> \o c.payload

\* ------------------------------------------------------------ exceptions
NotConnectedError == "ValueError: Not connected. Call connect() first."
ModesNotSetError == "ValueError: Modes not set. Call setup() first."
NotDiscoveredError == "ValueError: Device not discovered."
EmptyBatteryError == "ValueError: Empty battery characteristic payload"
LEDFormatError == "ValueError: LED data must be [r, g, b] format"
LEDRangeError == "ValueError: values must be integers between 0 and 255"
ByteRangeError == "ValueError: byte must be in range(0, 256)"
\* what a transport call can raise
TransportErrors == {"BleakError", "AttributeError"}

\* ------------------------------------------------------------- contexts
\* The context an operation starts from in the current state.
Ctx ==
    [m |-> m, classifier_mode |-> classifier_mode, emg_mode |-> emg_mode,
     imu_mode |-> imu_mode, client |-> client, link |-> link,
     subscribed |-> subscribed, tr |-> <<>>, err |-> None, val |-> <<>>, ret |-> <<>>]

\* raise e
Raise(c, e) == {[c EXCEPT !.err = e]}

\* S; F: run F from every context of S in which no exception is in flight
Bind(S, F(_)) == UNION {IF c.err = None THEN F(c) ELSE {c} : c \in S}

\* return (the value of the last expression is dropped)
ReturnNone(S) == {IF c.err = None THEN [c EXCEPT !.ret = <<>>] ELSE c : c \in S}

\* ------------------------------------------------ the transport (bleak)
\* One logged transport call.
Entry(op, handle, data, cb, out) ==
    [op |-> op, handle |-> handle, data |-> data, cb |-> cb, out |-> out]

\* A call on a connected BleakClient returns or raises; on one that is not
\* connected it raises.
Outcomes(c) == IF c.link THEN {"ok"} \cup TransportErrors ELSE TransportErrors

Issued(c, e) ==
    [c EXCEPT !.tr = Append(@, e), !.err = IF e.out = "ok" THEN None ELSE e.out]

\* BleakClient.write_gatt_char(handle, data, response=True)
write_gatt_char(c, handle, data) ==
    {Issued(c, Entry("write", handle, data, "", o)) : o \in Outcomes(c)}

\* payloads a read of the battery characteristic can deliver
BatteryPayloads == {<<>>, <<91>>}

\* BleakClient.read_gatt_char(handle)
read_gatt_char(c, handle) ==
    {Issued(c, Entry("read", handle, <<>>, "", o)) : o \in Outcomes(c) \ {"ok"}}
    \cup (IF c.link
          THEN {[Issued(c, Entry("read", handle, v, "", "ok")) EXCEPT !.val = v] :
                   v \in BatteryPayloads}
          ELSE {})

\* BleakClient.start_notify(handle, callback)
bleak_start_notify(c, handle, callback) ==
    {LET d == Issued(c, Entry("start_notify", handle, <<>>, callback, o))
     IN  IF o = "ok" THEN [d EXCEPT !.subscribed[handle] = callback] ELSE d :
        o \in Outcomes(c)}

\* BleakClient.stop_notify(handle)
bleak_stop_notify(c, handle) ==
    {LET d == Issued(c, Entry("stop_notify", handle, <<>>, "", o))
     IN  IF o = "ok" THEN [d EXCEPT !.subscribed[handle] = None] ELSE d :
        o \in Outcomes(c)}

NoSubscriptions == [h \in NotifyHandles |-> None]

\* BleakClient(device).connect()
bleak_connect(c) ==
    {LET d == [c EXCEPT !.tr = Append(@, Entry("connect", 0, <<>>, "", o)),
                        !.err = IF o = "ok" THEN None ELSE o]
     IN  IF o = "ok" THEN [d EXCEPT !.link = TRUE] ELSE d :
        o \in {"ok"} \cup TransportErrors}

\* BleakClient.disconnect()
bleak_disconnect(c) ==
    {LET d == [c EXCEPT !.tr = Append(@, Entry("disconnect", 0, <<>>, "", o)),
                        !.err = IF o = "ok" THEN None ELSE o]
     IN  IF o = "ok" THEN [d EXCEPT !.link = FALSE, !.subscribed = NoSubscriptions] ELSE d :
        o \in {"ok"} \cup TransportErrors}

\* --------------------------------------------- core.py: Myo, discovery
\* A str is the sequence of its characters.
\* str.lower() of one character, over the characters of addresses and UUIDs
LowerChar(ch) ==
    CASE ch = "A" -> "a" [] ch = "B" -> "b" [] ch = "C" -> "c"
      [] ch = "D" -> "d" [] ch = "E" -> "e" [] ch = "F" -> "f"
      [] OTHER -> ch
\* str.lower()
Lower(str) == [i \in 1..Len(str) |-> LowerChar(str[i])]

\* UUID.MYO_SERVICE
MYO_SERVICE ==
    <<"d", "5", "0", "6", "0", "0", "0", "1", "-", "a", "9", "0",
      "4", "-", "d", "e", "b", "9", "-", "4", "7", "4", "8", "-",
      "2", "c", "7", "f", "4", "a", "1", "2", "4", "8", "4", "2">>

\* BleakScanner.find_device_by_filter(filterfunc): the scanner hands the
\* devices it detects (seen: each an address with the service UUIDs of its
\* advertisement) to filterfunc in turn and returns the first one accepted,
\* or None when its time is over; or the scan raises.
find_device_by_filter(c, seen, filterfunc(_), name) ==
    LET I == {i \in 1..Len(seen) : filterfunc(seen[i])}
        found == IF I = {} THEN <<>> ELSE <<seen[CHOOSE i \in I : \A j \in I : i <= j]>>
    IN  {[Issued(c, Entry("scan", 0, seen, name, o)) EXCEPT !.val = IF o = "ok" THEN found ELSE <<>>] :
            o \in {"ok"} \cup TransportErrors}

\* Myo(): no device discovered yet
MyoCtx == [_device |-> <<>>, tr |-> <<>>, err |-> None, val |-> <<>>, ret |-> <<>>]

\* match_myo_mac that compares the addresses as they are written
match_myo_mac_CaseSensitive(mac, device) == mac = device.address

\* Myo.with_mac: match_myo_mac(device, _)
match_myo_mac(mac, device) == Lower(mac) = Lower(device.address)

\* Myo.with_mac(mac): ret is <<self>> or <<>> for None
Myo_with_mac(c, seen, mac) ==
    {IF d.err # None
     THEN [d EXCEPT !.err = None, !.ret = <<>>]
     ELSE IF d.val = <<>>
     THEN [d EXCEPT !.ret = <<>>]
     ELSE [d EXCEPT !._device = d.val, !.ret = <<[_device |-> d.val]>>] :
        d \in find_device_by_filter(c, seen, LAMBDA dev : match_myo_mac(mac, dev),
                                    "match_myo_mac")}

\* Myo.with_uuid: match_myo_uuid(_, adv)
match_myo_uuid(adv) ==
    \E k \in 1..Len(adv.service_uuids) : Lower(MYO_SERVICE) = Lower(adv.service_uuids[k])

\* Myo.with_uuid(): ret is <<self>> or <<>> for None
Myo_with_uuid(c, seen) ==
    {IF d.err # None
     THEN d
     ELSE IF d.val = <<>>
     THEN [d EXCEPT !.ret = <<>>]
     ELSE [d EXCEPT !._device = d.val, !.ret = <<[_device |-> d.val]>>] :
        d \in find_device_by_filter(c, seen, match_myo_uuid, "match_myo_uuid")}

\* ---------------------------------------------------- core.py: class Myo
\* int.from_bytes(val, "little")
RECURSIVE FromBytesLittle(_)
FromBytesLittle(val) ==
    IF val = <<>> THEN 0 ELSE Head(val) + 256 * FromBytesLittle(Tail(val))

\* Myo.battery_level(client)
Myo_battery_level(c) ==
    Bind(read_gatt_char(c, BATTERY_LEVEL),
         LAMBDA d : IF d.val = <<>>
                    THEN Raise(d, EmptyBatteryError)
                    ELSE {[d EXCEPT !.ret = <<FromBytesLittle(d.val)>>]})

\* Myo.command(client, cmd)
Myo_command(c, cmd) ==
    IF bytearray_raises(cmd.payload)
    THEN Raise(c, ByteRangeError)
    ELSE write_gatt_char(c, COMMAND, CommandData(cmd))

\* Myo.deep_sleep(client)
Myo_deep_sleep(c) == Myo_command(c, DeepSleep)

\* Myo.led(client, logo, line)
\* a led() that validates the logo colour only
Myo_led_LogoOnly(c, logo, line) ==
    IF Len(logo) # 3
    THEN Raise(c, LEDFormatError)
    ELSE IF \E i \in 1..3 : logo[i] < 0 \/ logo[i] > 255
         THEN Raise(c, LEDRangeError)
         ELSE IF LED_init_raises(logo, line)
         THEN Raise(c, LEDFormatError)
         ELSE Myo_command(c, LED(logo, line))

Myo_led(c, logo, line) ==
    IF Len(logo) # 3 \/ Len(line) # 3
    THEN Raise(c, LEDFormatError)
    ELSE IF \E i \in 1..3 : logo[i] < 0 \/ logo[i] > 255 \/ line[i] < 0 \/ line[i] > 255
         THEN Raise(c, LEDRangeError)
         ELSE Myo_command(c, LED(logo, line))

\* Myo.set_mode(client, classifier_mode, emg_mode, imu_mode)
Myo_set_mode(c, cm, em, im) == Myo_command(c, SetMode(cm, em, im))

\* Myo.set_sleep_mode(client, sleep_mode)
Myo_set_sleep_mode(c, sleep_mode) == Myo_command(c, SetSleepMode(sleep_mode))

\* Myo.unlock(client, unlock_type)
Myo_unlock(c, unlock_type) == Myo_command(c, Unlock(unlock_type))

\* Myo.user_action(client, user_action_type)
Myo_user_action(c, user_action_type) == Myo_command(c, UserAction(user_action_type))

\* Myo.vibrate(client, vibration_type): an AttributeError of the write is
\* caught and logged, anything else propagates
Myo_vibrate(c, vibration_type) ==
    {IF d.err = "AttributeError" THEN [d EXCEPT !.err = None] ELSE d :
        d \in Myo_command(c, Vibrate(vibration_type))}

\* Myo.vibrate2(client, duration, strength)
Myo_vibrate2(c, duration, strength) == Myo_command(c, Vibrate2(duration, strength))

\* --------------------------------------------- core.py: class MyoClient
\* MyoClient.battery_level()
MyoClient_battery_level(c) ==
    IF c.client = None THEN Raise(c, NotConnectedError) ELSE Myo_battery_level(c)

\* connect() that connects a BleakClient it does not keep
MyoClient_connect_ClientNotStored(c) ==
    IF c.m = None
    THEN Raise(c, NotDiscoveredError)
    ELSE bleak_connect([c EXCEPT !.link = FALSE, !.subscribed = NoSubscriptions])

\* MyoClient.connect()
MyoClient_connect(c) ==
    IF c.m = None
    THEN Raise(c, NotDiscoveredError)
    ELSE bleak_connect([c EXCEPT !.client = "BleakClient", !.link = FALSE,
                                 !.subscribed = NoSubscriptions])

\* MyoClient.deep_sleep()
MyoClient_deep_sleep(c) ==
    IF c.client = None THEN Raise(c, NotConnectedError) ELSE Myo_deep_sleep(c)

\* disconnect() that goes on after the warning (no early return)
MyoClient_disconnect_NoReturn(c) ==
    IF c.client = None
    THEN Raise(c, "AttributeError")
    ELSE Bind(bleak_disconnect(c), LAMBDA d : {[d EXCEPT !.client = None]})

\* MyoClient.disconnect()
MyoClient_disconnect(c) ==
    IF c.client = None
    THEN {c}
    ELSE Bind(bleak_disconnect(c), LAMBDA d : {[d EXCEPT !.client = None]})

\* the characteristics get_services() reads: those of the known services
\* that have the "read" property
ReadableHandles == <<BATTERY_LEVEL>>

RECURSIVE ReadEach(_, _)
ReadEach(c, hs) ==
    IF hs = <<>>
    THEN {c}
    ELSE Bind(read_gatt_char(c, Head(hs)), LAMBDA d : ReadEach(d, Tail(hs)))

\* MyoClient.get_services(); the JSON text it returns is not modelled
MyoClient_get_services(c) ==
    IF c.client = None
    THEN Raise(c, NotConnectedError)
    ELSE ReadEach(c, ReadableHandles)

\* MyoClient.led(color)
MyoClient_led(c, color) ==
    IF c.client = None THEN Raise(c, NotConnectedError) ELSE Myo_led(c, color, color)

\* MyoClient.set_mode(classifier_mode, emg_mode, imu_mode)
MyoClient_set_mode(c, cm, em, im) ==
    IF c.client = None THEN Raise(c, NotConnectedError) ELSE Myo_set_mode(c, cm, em, im)

\* MyoClient.set_sleep_mode(sleep_mode)
MyoClient_set_sleep_mode(c, sleep_mode) ==
    IF c.client = None THEN Raise(c, NotConnectedError) ELSE Myo_set_sleep_mode(c, sleep_mode)

\* x.value of an enum member x given with its class, <<class, name>>
MemberValue(x) ==
    CASE x[1] = "ClassifierMode" -> ClassifierModeValue(x[2])
      [] x[1] = "EMGMode" -> EMGModeValue(x[2])
      [] x[1] = "IMUMode" -> IMUModeValue(x[2])

\* Myo.set_mode(client, classifier_mode, emg_mode, imu_mode) called with
\* members of whatever class: SetMode stores the three arguments and its
\* payload reads emg_mode.value, imu_mode.value, classifier_mode.value
Myo_set_mode_members(c, cm, em, im) ==
    Myo_command(c, [cmd |-> 1,
                    payload |-> <<MemberValue(em), MemberValue(im), MemberValue(cm)>>])

\* client.MyoClient.set_mode(emg_mode, imu_mode, classifier_mode): the
\* three arguments go to Myo.set_mode by position, in the order received
client_MyoClient_set_mode(c, em, im, cm) ==
    IF c.client = None
    THEN Raise(c, "AttributeError")
    ELSE Myo_set_mode_members(c, em, im, cm)

\* MyoClient.start_notify(handle, callback)
MyoClient_start_notify(c, handle, callback) ==
    IF c.client = None
    THEN Raise(c, NotConnectedError)
    ELSE bleak_start_notify(c, handle, callback)

\* MyoClient.stop_notify(handle)
MyoClient_stop_notify(c, handle) ==
    IF c.client = None THEN Raise(c, NotConnectedError) ELSE bleak_stop_notify(c, handle)

\* MyoClient.unlock(unlock_type)
MyoClient_unlock(c, unlock_type) ==
    IF c.client = None THEN Raise(c, NotConnectedError) ELSE Myo_unlock(c, unlock_type)

\* MyoClient.user_action(user_action_type)
MyoClient_user_action(c, user_action_type) ==
    IF c.client = None
    THEN Raise(c, NotConnectedError)
    ELSE Myo_user_action(c, user_action_type)

\* vibrate() without the connection check
MyoClient_vibrate_NoGuard(c, vibration_type) == Myo_vibrate(c, vibration_type)

\* MyoClient.vibrate(vibration_type)
MyoClient_vibrate(c, vibration_type) ==
    IF c.client = None THEN Raise(c, NotConnectedError) ELSE Myo_vibrate(c, vibration_type)

\* MyoClient.vibrate2(duration, strength)
MyoClient_vibrate2(c, duration, strength) ==
    IF c.client = None
    THEN Raise(c, NotConnectedError)
    ELSE Myo_vibrate2(c, duration, strength)

\* "Setup modes" without the enforcement for aggregate_all
SetupStoreModes_NoEnforce(c, cm, em, im) ==
    [c EXCEPT !.classifier_mode = cm, !.emg_mode = em, !.imu_mode = im]

\* setup(): "Setup modes", the assignment of the three mode attributes
SetupStoreModes(c, cm, em, im) ==
    IF aggregate_all
    THEN [c EXCEPT !.classifier_mode = "DISABLED", !.emg_mode = "SEND_FILT",
                   !.imu_mode = "SEND_DATA"]
    ELSE [c EXCEPT !.classifier_mode = cm, !.emg_mode = em, !.imu_mode = im]

\* setup() that applies the modes before it disables sleep
MyoClient_setup_ModeBeforeSleep(c, cm, em, im) ==
    IF c.client = None
    THEN Raise(c, NotConnectedError)
    ELSE LET s1 == MyoClient_led(c, RGB_ORANGE)
             s2 == ReturnNone(Bind(s1, Myo_battery_level))
             s3 == Bind(s2, LAMBDA d : MyoClient_vibrate(d, "SHORT"))
             s4 == Bind(s3, LAMBDA d : MyoClient_vibrate(d, "SHORT"))
             s5 == Bind(s4, LAMBDA d : MyoClient_vibrate(d, "SHORT"))
             s6 == Bind(s5, LAMBDA d : {SetupStoreModes(d, cm, em, im)})
             s7 == Bind(s6, LAMBDA d : MyoClient_set_mode(d, d.classifier_mode,
                                                          d.emg_mode, d.imu_mode))
             s8 == Bind(s7, LAMBDA d : MyoClient_set_sleep_mode(d, "NEVER_SLEEP"))
         IN  Bind(s8, LAMBDA d : MyoClient_led(d, RGB_PINK))

\* MyoClient.setup(classifier_mode, emg_mode, imu_mode)
MyoClient_setup(c, cm, em, im) ==
    IF c.client = None
    THEN Raise(c, NotConnectedError)
    ELSE LET s1 == MyoClient_led(c, RGB_ORANGE)
             s2 == ReturnNone(Bind(s1, Myo_battery_level))
             s3 == Bind(s2, LAMBDA d : MyoClient_vibrate(d, "SHORT"))
             s4 == Bind(s3, LAMBDA d : MyoClient_vibrate(d, "SHORT"))
             s5 == Bind(s4, LAMBDA d : MyoClient_vibrate(d, "SHORT"))
             s6 == Bind(s5, LAMBDA d : MyoClient_set_sleep_mode(d, "NEVER_SLEEP"))
             s7 == Bind(s6, LAMBDA d : {SetupStoreModes(d, cm, em, im)})
             s8 == Bind(s7, LAMBDA d : MyoClient_set_mode(d, d.classifier_mode,
                                                          d.emg_mode, d.imu_mode))
         IN  Bind(s8, LAMBDA d : MyoClient_led(d, RGB_PINK))

\* sleep() that applies the sleep mode before it sets the LED
MyoClient_sleep_ModeFirst(c) ==
    IF c.m = None
    THEN Raise(c, NotDiscoveredError)
    ELSE LET s1 == MyoClient_set_sleep_mode(c, "NORMAL")
             s2 == Bind(s1, LAMBDA d : MyoClient_led(d, RGB_PINK))
         IN  Bind(s2, MyoClient_disconnect)

\* MyoClient.sleep()
MyoClient_sleep(c) ==
    IF c.m = None
    THEN Raise(c, NotDiscoveredError)
    ELSE LET s1 == MyoClient_led(c, RGB_PINK)
             s2 == Bind(s1, LAMBDA d : MyoClient_set_sleep_mode(d, "NORMAL"))
         IN  Bind(s2, MyoClient_disconnect)

\* MyoClient._get_emg_handles()
get_emg_handles(c) ==
    IF c.emg_mode \in {"SEND_EMG", "SEND_RAW"}
    THEN <<EMG0_DATA, EMG1_DATA, EMG2_DATA, EMG3_DATA>>
    ELSE IF c.emg_mode = "SEND_FILT" THEN <<FV_DATA>> ELSE <<>>

\* _get_imu_handles() that forgets to leave IMU_DATA out for SEND_EVENTS
get_imu_handles_EventsData(c) ==
    (IF c.imu_mode # "NONE" THEN <<IMU_DATA>> ELSE <<>>)
    \o (IF c.imu_mode \in {"SEND_EVENTS", "SEND_ALL"} THEN <<MOTION_EVENT>> ELSE <<>>)

\* MyoClient._get_imu_handles()
get_imu_handles(c) ==
    (IF c.imu_mode \notin {"NONE", "SEND_EVENTS"} THEN <<IMU_DATA>> ELSE <<>>)
    \o (IF c.imu_mode \in {"SEND_EVENTS", "SEND_ALL"} THEN <<MOTION_EVENT>> ELSE <<>>)

\* MyoClient._get_classifier_handles()
get_classifier_handles(c) ==
    IF c.classifier_mode = "ENABLED" THEN <<CLASSIFIER_EVENT>> ELSE <<>>

\* for handle in handles: await self.start_notify(handle, self.notify_callback)
RECURSIVE StartNotifyEach(_, _)
StartNotifyEach(c, hs) ==
    IF hs = <<>>
    THEN {c}
    ELSE Bind(MyoClient_start_notify(c, Head(hs), "notify_callback"),
              LAMBDA d : StartNotifyEach(d, Tail(hs)))

\* for handle in handles: await self.stop_notify(handle)
RECURSIVE StopNotifyEach(_, _)
StopNotifyEach(c, hs) ==
    IF hs = <<>>
    THEN {c}
    ELSE Bind(MyoClient_stop_notify(c, Head(hs)), LAMBDA d : StopNotifyEach(d, Tail(hs)))

\* start(): the three subscription loops
StartSubscribe(c) ==
    LET s1 == StartNotifyEach(c, get_emg_handles(c))
        s2 == Bind(s1, LAMBDA d : StartNotifyEach(d, get_imu_handles(d)))
    IN  Bind(s2, LAMBDA d : StartNotifyEach(d, get_classifier_handles(d)))

\* start() that sets the LED before it subscribes
MyoClient_start_LedFirst(c) ==
    IF c.client = None
    THEN Raise(c, NotConnectedError)
    ELSE IF c.emg_mode = None \/ c.imu_mode = None
         THEN Raise(c, ModesNotSetError)
         ELSE LET s1 == MyoClient_vibrate(c, "SHORT")
                  s2 == Bind(s1, LAMBDA d : MyoClient_led(d, RGB_CYAN))
              IN  Bind(s2, StartSubscribe)

\* start() without the check that setup() stored the modes
MyoClient_start_NoModesCheck(c) ==
    IF c.client = None
    THEN Raise(c, NotConnectedError)
    ELSE LET s1 == MyoClient_vibrate(c, "SHORT")
             s2 == Bind(s1, StartSubscribe)
         IN  Bind(s2, LAMBDA d : MyoClient_led(d, RGB_CYAN))

\* MyoClient.start()
MyoClient_start(c) ==
    IF c.client = None
    THEN Raise(c, NotConnectedError)
    ELSE IF c.emg_mode = None \/ c.imu_mode = None
         THEN Raise(c, ModesNotSetError)
         ELSE LET s1 == MyoClient_vibrate(c, "SHORT")
                  s2 == Bind(s1, StartSubscribe)
              IN  Bind(s2, LAMBDA d : MyoClient_led(d, RGB_CYAN))

\* stop() with the classifier loop ahead of the IMU loop
StopUnsubscribe_Reordered(c) ==
    LET s1 == StopNotifyEach(c, get_emg_handles(c))
        s2 == Bind(s1, LAMBDA d : StopNotifyEach(d, get_classifier_handles(d)))
    IN  Bind(s2, LAMBDA d : StopNotifyEach(d, get_imu_handles(d)))

\* stop(): the three unsubscription loops
StopUnsubscribe(c) ==
    LET s1 == StopNotifyEach(c, get_emg_handles(c))
        s2 == Bind(s1, LAMBDA d : StopNotifyEach(d, get_imu_handles(d)))
    IN  Bind(s2, LAMBDA d : StopNotifyEach(d, get_classifier_handles(d)))

\* stop(): "Vibrate short*2"; an AttributeError out of either call is
\* caught and replaced by a delay
StopVibrate(c) ==
    {IF d.err = "AttributeError" THEN [d EXCEPT !.err = None] ELSE d :
        d \in Bind(MyoClient_vibrate(c, "SHORT"), LAMBDA e : MyoClient_vibrate(e, "SHORT"))}

\* stop() whose two vibrations are plain command writes, nothing caught
MyoClient_stop_NoCatch(c) ==
    IF c.client = None
    THEN Raise(c, NotConnectedError)
    ELSE IF c.emg_mode = None \/ c.imu_mode = None
         THEN Raise(c, ModesNotSetError)
         ELSE LET s1 == StopUnsubscribe(c)
                  s2 == Bind(s1, LAMBDA d : Myo_command(d, Vibrate("SHORT")))
                  s3 == Bind(s2, LAMBDA d : Myo_command(d, Vibrate("SHORT")))
              IN  Bind(s3, LAMBDA d : MyoClient_led(d, RGB_GREEN))

\* MyoClient.stop()
MyoClient_stop(c) ==
    IF c.client = None
    THEN Raise(c, NotConnectedError)
    ELSE IF c.emg_mode = None \/ c.imu_mode = None
         THEN Raise(c, ModesNotSetError)
         ELSE LET s1 == StopUnsubscribe(c)
                  s2 == Bind(s1, StopVibrate)
              IN  Bind(s2, LAMBDA d : MyoClient_led(d, RGB_GREEN))

\* ------------------------------------------- types.py: the decoders
\* struct formats b, H, h: one signed byte, two bytes little-endian
\* a byte read as unsigned
S8_Unsigned(b) == b
S8(b) == IF b < 128 THEN b ELSE b - 256
\* two bytes read high byte first
U16_BigEndian(lo, hi) == 256 * lo + hi
U16(lo, hi) == lo + 256 * hi
S16(lo, hi) == IF U16(lo, hi) < 32768 THEN U16(lo, hi) ELSE U16(lo, hi) - 65536

ACCELEROMETER_SCALE == 2048
GYROSCOPE_SCALE == 16
ORIENTATION_SCALE == 16384

ArmValues == {1, 2, 255}
ClassifierEventTypeValues == 1..6
MotionEventTypeValues == {0, 1, 2}
PoseValues == {0, 1, 2, 3, 4, 5, 65535}
SyncResultValues == {1}
XDirectionValues == {1, 2, 255}

\* the constructor raised e
DecodeError(e) == [type |-> "error", err |-> e]

\* ClassifierEvent(data)
ClassifierEvent(data) ==
    IF Len(data) # 6
    THEN DecodeError("struct.error")
    ELSE IF data[1] \notin ClassifierEventTypeValues
    THEN DecodeError("ValueError")
    ELSE IF data[1] = 1
    THEN IF data[2] \in ArmValues /\ data[3] \in XDirectionValues
         THEN [type |-> "ClassifierEvent", t |-> 1, fields |-> <<data[2], data[3]>>]
         ELSE DecodeError("ValueError")
    ELSE IF data[1] = 3
    THEN IF U16(data[2], data[3]) \in PoseValues
         THEN [type |-> "ClassifierEvent", t |-> 3, fields |-> <<U16(data[2], data[3])>>]
         ELSE DecodeError("ValueError")
    ELSE IF data[1] = 6
    THEN IF data[2] \in SyncResultValues
         THEN [type |-> "ClassifierEvent", t |-> 6, fields |-> <<data[2]>>]
         ELSE DecodeError("ValueError")
    ELSE [type |-> "ClassifierEvent", t |-> data[1], fields |-> <<>>]

\* a table of names that has LOCKED and UNLOCKED exchanged
MemberName_LockedSwapped(enum, v) ==
    CASE enum = "ClassifierEventType" ->
            <<"ARM_SYNCED", "ARM_UNSYNCED", "POSE", "LOCKED", "UNLOCKED", "SYNC_FAILED">>[v]
      [] enum = "Arm" -> IF v = 1 THEN "RIGHT" ELSE IF v = 2 THEN "LEFT" ELSE "UNKNOWN"
      [] enum = "XDirection" ->
            IF v = 1 THEN "TOWARD_WRIST" ELSE IF v = 2 THEN "TOWARD_ELBOW" ELSE "DIRECTION_UNKNOWN"
      [] enum = "Pose" ->
            IF v = 65535 THEN "UNKNOWN"
            ELSE <<"REST", "FIST", "WAVE_IN", "WAVE_OUT", "FINGERS_SPREAD", "DOUBLE_TAP">>[v + 1]
      [] enum = "SyncResult" -> "FAILED_TOO_HARD"
      [] enum = "HardwareRev" -> <<"UNKNOWN", "REVC", "REVD", "REVS">>[v + 1]
      [] enum = "ClassifierModelType" -> <<"BUILTIN", "CUSTOM">>[v + 1]
      [] enum = "SKU" -> <<"UNKNOWN", "BLACK", "WHITE">>[v + 1]

\* Enum(v).name for the enums of types.py the decoders look members up in
MemberName(enum, v) ==
    CASE enum = "ClassifierEventType" ->
            <<"ARM_SYNCED", "ARM_UNSYNCED", "POSE", "UNLOCKED", "LOCKED", "SYNC_FAILED">>[v]
      [] enum = "Arm" -> IF v = 1 THEN "RIGHT" ELSE IF v = 2 THEN "LEFT" ELSE "UNKNOWN"
      [] enum = "XDirection" ->
            IF v = 1 THEN "TOWARD_WRIST" ELSE IF v = 2 THEN "TOWARD_ELBOW" ELSE "DIRECTION_UNKNOWN"
      [] enum = "Pose" ->
            IF v = 65535 THEN "UNKNOWN"
            ELSE <<"REST", "FIST", "WAVE_IN", "WAVE_OUT", "FINGERS_SPREAD", "DOUBLE_TAP">>[v + 1]
      [] enum = "SyncResult" -> "FAILED_TOO_HARD"
      [] enum = "HardwareRev" -> <<"UNKNOWN", "REVC", "REVD", "REVS">>[v + 1]
      [] enum = "ClassifierModelType" -> <<"BUILTIN", "CUSTOM">>[v + 1]
      [] enum = "SKU" -> <<"UNKNOWN", "BLACK", "WHITE">>[v + 1]

\* ClassifierEvent.to_dict(): the entries as <<key, value>> pairs
ClassifierEvent_to_dict(ev) ==
    <<<<"type", MemberName("ClassifierEventType", ev.t)>>>>
    \o (CASE ev.t = 1 -> <<<<"arm", MemberName("Arm", ev.fields[1])>>,
                           <<"x-diraction", MemberName("XDirection", ev.fields[2])>>>>
           [] ev.t = 3 -> <<<<"pose", MemberName("Pose", ev.fields[1])>>>>
           [] ev.t = 6 -> <<<<"sync-result", MemberName("SyncResult", ev.fields[1])>>>>
           [] OTHER -> <<>>)

\* an EMGData that reads the first 16 bytes of a longer buffer
EMGData_Truncating(data) ==
    IF Len(data) < 16
    THEN DecodeError("struct.error")
    ELSE [type |-> "EMGData",
          sample1 |-> [i \in 1..8 |-> S8(data[i])],
          sample2 |-> [i \in 1..8 |-> S8(data[8 + i])]]

\* EMGData(data)
EMGData(data) ==
    IF Len(data) # 16
    THEN DecodeError("struct.error")
    ELSE [type |-> "EMGData",
          sample1 |-> [i \in 1..8 |-> S8(data[i])],
          sample2 |-> [i \in 1..8 |-> S8(data[8 + i])]]

\* EMGDataSingle(sample)
EMGDataSingle(sample) == [type |-> "EMGDataSingle", sample |-> sample]

\* FVData(data)
FVData(data) ==
    IF Len(data) # 17
    THEN DecodeError("AssertionError")
    ELSE [type |-> "FVData",
          fv |-> [i \in 1..8 |-> U16(data[2 * i - 1], data[2 * i])],
          mask |-> S8(data[17])]

\* IMUData(data); the quotient v / scale is kept as the pair <<v, scale>>
IMUData(data) ==
    IF Len(data) # 20
    THEN DecodeError("struct.error")
    ELSE LET u == [i \in 1..10 |-> S16(data[2 * i - 1], data[2 * i])]
         IN  [type |-> "IMUData",
              orientation |-> [i \in 1..4 |-> <<u[i], ORIENTATION_SCALE>>],
              accelerometer |-> [i \in 1..3 |-> <<u[4 + i], ACCELEROMETER_SCALE>>],
              gyroscope |-> [i \in 1..3 |-> <<u[7 + i], GYROSCOPE_SCALE>>]]

ClassifierModelTypeValues == {0, 1}
HardwareRevValues == 0..3
SKUValues == {0, 1, 2}

\* hex(i)[-2:] of a byte and str.upper(): the characters of the piece
HexDigit(n) ==
    <<"0", "1", "2", "3", "4", "5", "6", "7", "8", "9", "A", "B", "C", "D", "E", "F">>[n + 1]
HexPiece(i) ==
    IF i < 16 THEN <<"X", HexDigit(i)>> ELSE <<HexDigit(i \div 16), HexDigit(i % 16)>>

\* FirmwareInfo(data): the enum members are kept by their values, the
\* serial number as its pieces, which ":" joins
FirmwareInfo(data) ==
    IF Len(data) # 20
    THEN DecodeError("struct.error")
    ELSE IF \/ U16(data[7], data[8]) \notin PoseValues
            \/ data[9] \notin ClassifierModelTypeValues
            \/ data[13] \notin SKUValues
    THEN DecodeError("ValueError")
    ELSE [type |-> "FirmwareInfo",
          serial_number |-> [i \in 1..6 |-> HexPiece(data[7 - i])],
          unlock_pose |-> U16(data[7], data[8]),
          active_classifier_type |-> data[9],
          active_classifier_index |-> data[10],
          has_custom_classifier |-> data[11] # 0,
          stream_indicating |-> data[12] # 0,
          sku |-> data[13],
          reserved |-> SubSeq(data, 14, 20)]

\* FirmwareInfo.to_dict(): the entries as <<key, value>> pairs, each value
\* with the name of its Python type.  The entry "unlock_pose" holds
\* self._has_custom_classifier; self._unlock_pose is read nowhere.
FirmwareInfo_to_dict(fi) ==
    <<<<"serial_number", <<"str", fi.serial_number>>>>,
      <<"unlock_pose", <<"bool", fi.has_custom_classifier>>>>,
      <<"active_classifier_type",
        <<"str", MemberName("ClassifierModelType", fi.active_classifier_type)>>>>,
      <<"active_classifier_index", <<"int", fi.active_classifier_index>>>>,
      <<"has_custom_classifier", <<"bool", fi.has_custom_classifier>>>>,
      <<"stream_indicating", <<"bool", fi.stream_indicating>>>>,
      <<"sku", <<"str", MemberName("SKU", fi.sku)>>>>>>

\* a FirmwareVersion that takes an unlisted hardware revision for UNKNOWN
FirmwareVersion_DefaultRev(data) ==
    IF Len(data) # 8
    THEN DecodeError("struct.error")
    ELSE [type |-> "FirmwareVersion",
          major |-> U16(data[1], data[2]),
          minor |-> U16(data[3], data[4]),
          patch |-> U16(data[5], data[6]),
          hardware_rev |-> IF U16(data[7], data[8]) \in HardwareRevValues
                           THEN U16(data[7], data[8]) ELSE 0]

\* FirmwareVersion(data)
FirmwareVersion(data) ==
    IF Len(data) # 8
    THEN DecodeError("struct.error")
    ELSE IF U16(data[7], data[8]) \notin HardwareRevValues
    THEN DecodeError("ValueError")
    ELSE [type |-> "FirmwareVersion",
          major |-> U16(data[1], data[2]),
          minor |-> U16(data[3], data[4]),
          patch |-> U16(data[5], data[6]),
          hardware_rev |-> U16(data[7], data[8])]

\* str(n) of an int n >= 0: its decimal digits
RECURSIVE Decimal(_)
Decimal(n) ==
    IF n < 10
    THEN <<HexDigit(n)>>
    ELSE Append(Decimal(n \div 10), HexDigit(n % 10))

\* FirmwareVersion.__str__(): the characters of the numbers and the dots,
\* then the name of the hardware revision
FirmwareVersion_str(fv) ==
    Decimal(fv.major) \o <<".">> \o Decimal(fv.minor) \o <<".">> \o Decimal(fv.patch)
        \o <<".">> \o <<MemberName("HardwareRev", fv.hardware_rev)>>

\* a MotionEvent that reads the tap fields whatever the tag
MotionEvent_TapFieldsAlways(data) ==
    IF Len(data) # 3
    THEN DecodeError("struct.error")
    ELSE IF S8(data[1]) \notin MotionEventTypeValues
    THEN DecodeError("ValueError")
    ELSE [type |-> "MotionEvent", t |-> S8(data[1]), fields |-> <<S8(data[2]), S8(data[3])>>]

\* MotionEvent(data)
MotionEvent(data) ==
    IF Len(data) # 3
    THEN DecodeError("struct.error")
    ELSE IF S8(data[1]) \notin MotionEventTypeValues
    THEN DecodeError("ValueError")
    ELSE IF S8(data[1]) = 0
    THEN [type |-> "MotionEvent", t |-> 0, fields |-> <<S8(data[2]), S8(data[3])>>]
    ELSE [type |-> "MotionEvent", t |-> S8(data[1]), fields |-> <<>>]

\* AggregatedData(fvd, imu)
AggregatedData(fvd, imu) == [type |-> "AggregatedData", fv |-> fvd, imu |-> imu]

\* ------------------------------------------ core.py: the notifications
\* notifications delivered per session
MaxNotifications == 4
\* of these, notifications that follow one another from any handle
MaxRouted == 2

Tasks == 1..MaxNotifications

\* the values of Handle: Handle(x) raises ValueError for any other x
HandleValues == {12, 13, 15, 16, 19, 20, 22, 24, 26, 27, 30, 33, 34, 37, 38, 41, 42, 45,
                 48, 51, 54, 55}

\* The payload of the n-th notification of the session on handle h: a
\* well-formed buffer of the characteristic that tells n.
Payload(h, n) ==
    CASE h = CLASSIFIER_EVENT -> <<3, n, 0, 0, 0, 0>>
      [] h = FV_DATA -> [i \in 1..17 |-> IF i = 1 THEN n ELSE IF i = 17 THEN 255 ELSE 0]
      [] h = IMU_DATA -> [i \in 1..20 |-> IF i = 1 THEN n ELSE IF i = 4 THEN 255 ELSE 0]
      [] h = MOTION_EVENT -> <<0, 255, n>>
      [] h \in {EMG0_DATA, EMG1_DATA, EMG2_DATA, EMG3_DATA} ->
            [i \in 1..16 |-> IF i = 1 THEN n ELSE IF i = 9 THEN 128 + n ELSE 0]
      [] OTHER -> <<90 + n>>

NoTask == [pc |-> "new", handle |-> 0, err |-> None]

NoNotifications ==
    /\ lock = 0
    /\ tasks = [t \in Tasks |-> NoTask]
    /\ hooks = <<>>
    /\ ingested = <<>>
    /\ buffers = [t \in Tasks |-> <<>>]

\* what the delivery of notifications leaves alone
sessionVars ==
    <<m, aggregate_all, aggregate_emg, classifier_mode, emg_mode, imu_mode, client,
      link, subscribed, pc, call, trace, result, ret, calls, lastStart>>

\* await self.on_...(arg): the consumer's hook is entered
HookCall(t, hook, arg) == Append(hooks, [task |-> t, hook |-> hook, arg |-> arg])

\* on_data() that fills a slot only when it is empty
on_data_store_KeepFirst(fv, imu, d) ==
    <<IF d.type = "FVData" /\ fv = <<>> THEN <<d>> ELSE fv,
      IF d.type = "IMUData" /\ imu = <<>> THEN <<d>> ELSE imu>>

\* on_data(): the assignment of the slot of the kind of d; <<fv, imu>> after it
on_data_store(fv, imu, d) ==
    <<IF d.type = "FVData" THEN <<d>> ELSE fv,
      IF d.type = "FVData" THEN imu ELSE IF d.type = "IMUData" THEN <<d>> ELSE imu>>

\* on_data(): all(d is not None for d in (self.fv_aggregated, self.imu_aggregated))
BothReady(fv, imu) == fv # <<>> /\ imu # <<>>

\* on_data(data) of task t from the acquisition of the lock to its first
\* await: store, check, and enter on_aggregated_data or release the lock
OnDataLocked(t, h, d) ==
    LET slots == on_data_store(fv_aggregated, imu_aggregated, d)
    IN  /\ fv_aggregated' = slots[1]
        /\ imu_aggregated' = slots[2]
        /\ ingested' = Append(ingested, [task |-> t, data |-> d])
        /\ IF BothReady(slots[1], slots[2])
           THEN /\ hooks' = HookCall(t, "on_aggregated_data",
                                     AggregatedData(slots[1][1], slots[2][1]))
                /\ lock' = t
                /\ tasks' = [tasks EXCEPT ![t] = [pc |-> "aggregated", handle |-> h, err |-> None]]
           ELSE /\ hooks' = hooks
                /\ lock' = 0
                /\ tasks' = [tasks EXCEPT ![t] = [pc |-> "done", handle |-> h, err |-> None]]

\* the sample notify_callback of task t hands to on_data
Sample(t) ==
    IF tasks[t].handle = FV_DATA
    THEN FVData(buffers[t])
    ELSE IMUData(buffers[t])

\* MyoClient.on_data(data), entered by task t with handle h: async with
\* self._lock acquires the lock at once when it is free and no task waits
\* for it, and suspends the task otherwise
on_data(t, h, d) ==
    IF lock = 0 /\ \A u \in Tasks : tasks[u].pc # "lock"
    THEN OnDataLocked(t, h, d)
    ELSE /\ tasks' = [tasks EXCEPT ![t] = [pc |-> "lock", handle |-> h, err |-> None]]
         /\ UNCHANGED <<fv_aggregated, imu_aggregated, lock, hooks, ingested>>

\* notify_callback ends: it returns, or raises err
NotifyEnds(t, h, err) ==
    /\ tasks' = [tasks EXCEPT ![t] = [pc |-> "done", handle |-> h, err |-> err]]
    /\ UNCHANGED <<fv_aggregated, imu_aggregated, lock, hooks, ingested>>

\* notify_callback awaits a hook that is not on_data
NotifyHook(t, h, at, hook, arg) ==
    /\ tasks' = [tasks EXCEPT ![t] = [pc |-> at, handle |-> h, err |-> None]]
    /\ hooks' = HookCall(t, hook, arg)
    /\ UNCHANGED <<fv_aggregated, imu_aggregated, lock, ingested>>

\* the FV/IMU branch that leaves aggregate_all out of account
NotifyFVIMU_NeverAggregated(t, h, hook, d) == NotifyHook(t, h, "hook", hook, d)

\* notify_callback: the branches of FV_DATA and IMU_DATA, hook being the
\* dedicated hook of the handle
NotifyFVIMU(t, h, hook, d) ==
    IF aggregate_all
    THEN on_data(t, h, d)
    ELSE NotifyHook(t, h, "hook", hook, d)

\* the EMG branch that leaves aggregate_emg out of account
NotifyEMG_WholeRecord(t, h, emg) == NotifyHook(t, h, "hook", "on_emg_data", emg)

\* notify_callback: the branch of EMG0_DATA..EMG3_DATA
NotifyEMG(t, h, emg) ==
    IF aggregate_emg
    THEN NotifyHook(t, h, "emg1", "on_emg_data_aggregated", EMGDataSingle(emg.sample1))
    ELSE NotifyHook(t, h, "hook", "on_emg_data", emg)

\* a constructor whose exception notify_callback catches and drops
NotifyDecodeFails_Dropped(t, h, err) == NotifyEnds(t, h, None)

\* notify_callback: the constructor of the sample raised err, which leaves
\* notify_callback, no statement of it catching anything
NotifyDecodeFails(t, h, err) == NotifyEnds(t, h, err)

\* MyoClient.notify_callback(sender, data) of task t for a notification of
\* handle h, up to its first await
notify_callback(t, h, data) ==
    LET known == IF h = CLASSIFIER_EVENT THEN ClassifierEvent(data)
                 ELSE IF h = FV_DATA THEN FVData(data)
                 ELSE IF h = IMU_DATA THEN IMUData(data)
                 ELSE IF h = MOTION_EVENT THEN MotionEvent(data)
                 ELSE EMGData(data)
    IN  IF h \notin HandleValues
        THEN NotifyEnds(t, h, "ValueError")
        ELSE IF h \notin {CLASSIFIER_EVENT, FV_DATA, IMU_DATA, MOTION_EVENT,
                          EMG0_DATA, EMG1_DATA, EMG2_DATA, EMG3_DATA}
        THEN NotifyEnds(t, h, None)
        ELSE IF known.type = "error"
        THEN NotifyDecodeFails(t, h, known.err)
        ELSE IF h = CLASSIFIER_EVENT
        THEN NotifyHook(t, h, "hook", "on_classifier_event", known)
        ELSE IF h = FV_DATA
        THEN NotifyFVIMU(t, h, "on_fv_data", known)
        ELSE IF h = IMU_DATA
        THEN NotifyFVIMU(t, h, "on_imu_data", known)
        ELSE IF h = MOTION_EVENT
        THEN NotifyHook(t, h, "hook", "on_motion_event", known)
        ELSE NotifyEMG(t, h, known)

\* ------------------------------------------------------------ the caller
\* the handles an operation passed to the transport call op, in order
RECURSIVE HandlesOf(_, _)
HandlesOf(tr, op) ==
    IF tr = <<>>
    THEN <<>>
    ELSE (IF Head(tr).op = op THEN <<Head(tr).handle>> ELSE <<>>) \o HandlesOf(Tail(tr), op)

Triple(c) == <<c.classifier_mode, c.emg_mode, c.imu_mode>>

NoCall == [op |-> "__init__", args |-> <<>>]
NoStart == [modes |-> <<None, None, None>>, handles |-> <<>>]

\* The caller awaits operation op(args), which ends in one of the contexts S.
Complete(op, args, S) ==
    /\ pc = "idle"
    /\ calls < MaxCalls
    /\ \E d \in S :
          /\ classifier_mode' = d.classifier_mode
          /\ emg_mode' = d.emg_mode
          /\ imu_mode' = d.imu_mode
          /\ client' = d.client
          /\ link' = d.link
          /\ subscribed' = d.subscribed
          /\ trace' = d.tr
          /\ result' = d.err
          /\ ret' = d.ret
          /\ lastStart' = IF op = "start" /\ d.err = None
                          THEN [modes |-> Triple(d), handles |-> HandlesOf(d.tr, "start_notify")]
                          ELSE lastStart
    /\ pc' = "done"
    /\ call' = [op |-> op, args |-> args]
    /\ calls' = calls + 1
    /\ UNCHANGED <<m, aggregate_all, aggregate_emg, fv_aggregated, imu_aggregated>>
    /\ UNCHANGED notifyVars

\* The caller takes the outcome of the completed operation.
Ack ==
    /\ pc = "done"
    /\ pc' = "idle"
    /\ call' = NoCall
    /\ trace' = <<>>
    /\ result' = None
    /\ ret' = <<>>
    /\ UNCHANGED <<m, aggregate_all, aggregate_emg, classifier_mode, emg_mode, imu_mode,
                   client, fv_aggregated, imu_aggregated, link, subscribed, calls, lastStart>>
    /\ UNCHANGED notifyVars

\* ---------------------------------------------------------------- inputs
AllTriples == ClassifierMode \X EMGMode \X IMUMode
\* the configurations the caller of the session uses: the defaults of
\* setup(), the two of the specification's examples, and a raw EMG one
SetupInputs ==
    {<<"DISABLED", "SEND_FILT", "NONE">>, <<"ENABLED", "SEND_FILT", "SEND_ALL">>,
     <<"DISABLED", "NONE", "NONE">>, <<"DISABLED", "SEND_EMG", "SEND_DATA">>}
LedInputs == {RGB_CYAN, <<0, 256, 0>>, <<1, 2>>}
Vibrate2Inputs == {<<300, 128>>}
NotifyInputs == {FV_DATA, BATTERY_LEVEL}
CallbackInputs == {"notify_callback", "callback"}

\* the devices in range of the scanner: an armband that advertises the Myo
\* service in upper case, a second armband, and a device of another kind
Armband ==
    [address |-> <<"D", "2", ":", "3", "B", ":", "8", "5", ":", "9", "4", ":",
                  "3", "2", ":", "8", "E">>,
     service_uuids |->
        <<<<"D", "5", "0", "6", "0", "0", "0", "1", "-", "A", "9", "0",
            "4", "-", "D", "E", "B", "9", "-", "4", "7", "4", "8", "-",
            "2", "C", "7", "F", "4", "A", "1", "2", "4", "8", "4", "2">>>>]
OtherArmband ==
    [address |-> <<"e", "7", ":", "4", "c", ":", "0", "9", ":", "5", "1", ":",
                  "a", "a", ":", "0", "f">>,
     service_uuids |->
        <<<<"0", "0", "0", "0", "1", "8", "0", "f", "-", "0", "0", "0",
            "0", "-", "1", "0", "0", "0", "-", "8", "0", "0", "0", "-",
            "0", "0", "8", "0", "5", "f", "9", "b", "3", "4", "f", "b">>,
          <<"d", "5", "0", "6", "0", "0", "0", "1", "-", "a", "9", "0",
            "4", "-", "d", "e", "b", "9", "-", "4", "7", "4", "8", "-",
            "2", "c", "7", "f", "4", "a", "1", "2", "4", "8", "4", "2">>>>]
Headset ==
    [address |-> <<"0", "0", ":", "1", "A", ":", "7", "D", ":", "D", "A", ":",
                  "7", "1", ":", "1", "3">>,
     service_uuids |-> <<>>]
Devices == {Armband, OtherArmband, Headset}
\* the devices a scan detects before its time is over, in order
SeenInputs ==
    {<<>>} \cup {<<d>> : d \in Devices}
           \cup {<<d, e>> : d \in Devices, e \in Devices}
\* the addresses with_mac is called with: the first armband's in lower and
\* in upper case, and one no device has
MacInputs ==
    {<<"d", "2", ":", "3", "b", ":", "8", "5", ":", "9", "4", ":",
       "3", "2", ":", "8", "e">>,
     <<"D", "2", ":", "3", "B", ":", "8", "5", ":", "9", "4", ":",
       "3", "2", ":", "8", "E">>,
     <<"0", "0", ":", "1", "a", ":", "7", "d", ":", "d", "a", ":",
       "7", "1", ":", "1", "4">>}

\* --------------------------------------------------------------- actions
\* the mac argument of with_device: None or "" (both <<>> here) or an address
WithDeviceInputs == {<<>>} \cup MacInputs

\* a discovery attempt that scans by service UUID whatever mac is
with_device_attempt_UuidOnly(seen, mac) == Myo_with_uuid(MyoCtx, seen)

\* with_device(mac): self.m = await Myo.with_mac(mac) if mac and mac != ""
\* else await Myo.with_uuid(), the scan detecting the devices seen
with_device_attempt(seen, mac) ==
    IF mac # <<>>
    THEN Myo_with_mac(MyoCtx, seen, mac)
    ELSE Myo_with_uuid(MyoCtx, seen)

\* MyoClient.with_device(mac): one pass of the discovery loop.  The attempt
\* returns a Myo (the loop ends), returns None (sleep, next pass) or raises
\* (with_device ends with the exception); ret is what the attempt returned.
WithDeviceScan ==
    /\ pc = "scan"
    /\ m = None
    /\ \E seen \in SeenInputs :
          \E d \in with_device_attempt(seen, call.args[1]) :
              /\ trace' = d.tr
              /\ result' = d.err
              /\ ret' = d.ret
              /\ m' = IF d.err = None /\ d.ret # <<>> THEN "Myo" ELSE None
              /\ pc' = IF d.err = None THEN "scan" ELSE "lost"
    /\ UNCHANGED <<aggregate_all, aggregate_emg, classifier_mode, emg_mode, imu_mode,
                   client, fv_aggregated, imu_aggregated, link, subscribed,
                   call, calls, lastStart>>
    /\ UNCHANGED notifyVars

\* MyoClient.with_device(): the loop has ended, connect() and return
WithDeviceConnect ==
    /\ pc = "scan"
    /\ m # None
    /\ \E d \in MyoClient_connect(Ctx) :
          /\ client' = d.client
          /\ link' = d.link
          /\ subscribed' = d.subscribed
          /\ trace' = d.tr
          /\ result' = d.err
          /\ pc' = IF d.err = None THEN "done" ELSE "lost"
    /\ UNCHANGED <<m, aggregate_all, aggregate_emg, classifier_mode, emg_mode, imu_mode,
                   fv_aggregated, imu_aggregated, call, ret, calls, lastStart>>
    /\ UNCHANGED notifyVars

BatteryLevel == Complete("battery_level", <<>>, MyoClient_battery_level(Ctx))
Connect == Complete("connect", <<>>, MyoClient_connect(Ctx))
DeepSleepCall == Complete("deep_sleep", <<>>, MyoClient_deep_sleep(Ctx))
Disconnect == Complete("disconnect", <<>>, MyoClient_disconnect(Ctx))
GetServices == Complete("get_services", <<>>, MyoClient_get_services(Ctx))
Led == \E color \in LedInputs : Complete("led", <<color>>, MyoClient_led(Ctx, color))
SetModeCall ==
    \E t \in SetupInputs :
        Complete("set_mode", t, MyoClient_set_mode(Ctx, t[1], t[2], t[3]))
SetSleepModeCall ==
    \E sm \in SleepMode : Complete("set_sleep_mode", <<sm>>, MyoClient_set_sleep_mode(Ctx, sm))
Setup ==
    \E t \in SetupInputs : Complete("setup", t, MyoClient_setup(Ctx, t[1], t[2], t[3]))
Sleep == Complete("sleep", <<>>, MyoClient_sleep(Ctx))
Start == Complete("start", <<>>, MyoClient_start(Ctx))
StartNotify ==
    \E h \in NotifyInputs, cb \in CallbackInputs :
        Complete("start_notify", <<h, cb>>, MyoClient_start_notify(Ctx, h, cb))
Stop == Complete("stop", <<>>, MyoClient_stop(Ctx))
StopNotify ==
    \E h \in NotifyInputs : Complete("stop_notify", <<h>>, MyoClient_stop_notify(Ctx, h))
UnlockCall == \E u \in UnlockType : Complete("unlock", <<u>>, MyoClient_unlock(Ctx, u))
UserActionCall ==
    \E u \in UserActionType : Complete("user_action", <<u>>, MyoClient_user_action(Ctx, u))
VibrateCall ==
    \E v \in VibrationType : Complete("vibrate", <<v>>, MyoClient_vibrate(Ctx, v))
Vibrate2Call ==
    \E v \in Vibrate2Inputs : Complete("vibrate2", v, MyoClient_vibrate2(Ctx, v[1], v[2]))

\* Malformed payloads of the n-th notification on handle h: a byte short, a
\* byte long, and for the event characteristics values no enum lists (a
\* tag, an arm, an x-direction, a pose, a sync result).
Malformed(h, n) ==
    LET p == Payload(h, n)
    IN  IF h \notin {CLASSIFIER_EVENT, FV_DATA, IMU_DATA, MOTION_EVENT,
                     EMG0_DATA, EMG1_DATA, EMG2_DATA, EMG3_DATA}
        THEN {}
        ELSE {SubSeq(p, 1, Len(p) - 1), Append(p, n)}
             \cup (IF h = CLASSIFIER_EVENT
                   THEN {<<7, n, 0, 0, 0, 0>>, <<1, 3, 1, 0, 0, 0>>, <<1, 1, 3, 0, 0, 0>>,
                         <<3, 6, 0, 0, 0, 0>>, <<6, 2, 0, 0, 0, 0>>}
                   ELSE IF h = MOTION_EVENT THEN {<<3, 0, n>>} ELSE {})

\* the handles notifications are delivered from: the data characteristics,
\* the battery level, and (28) a handle the table does not list
NotificationInputs ==
    {CLASSIFIER_EVENT, FV_DATA, IMU_DATA, MOTION_EVENT, EMG0_DATA, EMG3_DATA,
     BATTERY_LEVEL, 28}

\* The transport delivers the next notification, from handle h: it creates
\* task t, which runs notify_callback up to its first await.
Deliver(t, h, data) ==
    /\ tasks[t].pc = "new"
    /\ \A u \in Tasks : u < t => tasks[u].pc # "new"
    /\ h \in DOMAIN subscribed => subscribed[h] = "notify_callback"
    /\ buffers' = [buffers EXCEPT ![t] = data]
    /\ notify_callback(t, h, data)
    /\ UNCHANGED sessionVars

\* notifications that follow one another, from any handle
DeliverAlone ==
    \E t \in 1..MaxRouted, h \in NotificationInputs :
        \E data \in {Payload(h, t)} \cup Malformed(h, t) :
            /\ \A u \in Tasks : tasks[u].pc \in {"new", "done"}
            /\ Deliver(t, h, data)

\* FV and IMU notifications delivered while others are being handled
DeliverConcurrent ==
    \E t \in Tasks, h \in {FV_DATA, IMU_DATA} : Deliver(t, h, Payload(h, t))

\* on_data(): a task suspended in async with self._lock gets the lock
LockAcquire ==
    \E t \in Tasks :
        /\ tasks[t].pc = "lock"
        /\ lock = 0
        /\ OnDataLocked(t, tasks[t].handle, Sample(t))
        /\ UNCHANGED <<sessionVars, buffers>>

\* The hook a task awaits returns: notify_callback calls the second EMG
\* hook, or on_data clears the slots and releases the lock, or it is over.
HookReturn ==
    \E t \in Tasks :
        /\ tasks[t].pc \in {"hook", "emg1", "aggregated"}
        /\ IF tasks[t].pc = "emg1"
           THEN /\ hooks' = HookCall(t, "on_emg_data_aggregated",
                                     EMGDataSingle(EMGData(buffers[t]).sample2))
                /\ tasks' = [tasks EXCEPT ![t].pc = "hook"]
                /\ UNCHANGED <<fv_aggregated, imu_aggregated, lock>>
           ELSE IF tasks[t].pc = "aggregated"
           THEN /\ fv_aggregated' = <<>>
                /\ imu_aggregated' = <<>>
                /\ lock' = 0
                /\ tasks' = [tasks EXCEPT ![t].pc = "done"]
                /\ hooks' = hooks
           ELSE /\ tasks' = [tasks EXCEPT ![t].pc = "done"]
                /\ UNCHANGED <<fv_aggregated, imu_aggregated, lock, hooks>>
        /\ UNCHANGED <<sessionVars, ingested, buffers>>

\* a raising hook that leaves the lock with the task it has ended
HookRaise_KeepsLock ==
    \E t \in Tasks :
        /\ tasks[t].pc \in {"hook", "emg1", "aggregated"}
        /\ tasks' = [tasks EXCEPT ![t].pc = "done", ![t].err = "HookError"]
        /\ UNCHANGED <<sessionVars, fv_aggregated, imu_aggregated, lock, hooks, ingested,
                       buffers>>

\* The hook a task awaits raises: the exception leaves on_data through
\* async with, which releases the lock, and leaves notify_callback.
HookRaise ==
    \E t \in Tasks :
        /\ tasks[t].pc \in {"hook", "emg1", "aggregated"}
        /\ tasks' = [tasks EXCEPT ![t].pc = "done", ![t].err = "HookError"]
        /\ lock' = IF tasks[t].pc = "aggregated" THEN 0 ELSE lock
        /\ UNCHANGED <<sessionVars, fv_aggregated, imu_aggregated, hooks, ingested, buffers>>

\* the colours LED commands are built from: valid ones, ones with a
\* component that is no byte, ones that have not three components
ColourInputs ==
    {RGB_CYAN, <<0, 0, 0>>, <<255, 255, 255>>, <<0, 256, 0>>, <<-1, 0, 0>>, <<1, 2>>,
     <<1, 2, 3, 4>>}
\* durations and strengths Vibrate2 commands are built from: in range, and
\* one past the range
DurationInputs == {0, 1, 255, 256, 300, 4660, 65280, 65535, 65536}
StrengthInputs == {0, 128, 255, 256}
\* the constructor calls of commands.py
CommandInputs ==
    {[op |-> "SetMode", args |-> t] : t \in AllTriples}
    \cup {[op |-> "Vibrate", args |-> <<v>>] : v \in VibrationType}
    \cup {[op |-> "DeepSleep", args |-> <<>>]}
    \cup {[op |-> "LED", args |-> <<logo, line>>] : logo \in ColourInputs, line \in ColourInputs}
    \cup {[op |-> "Vibrate2", args |-> <<d, st>>] : d \in DurationInputs, st \in StrengthInputs}
    \cup {[op |-> "SetSleepMode", args |-> <<v>>] : v \in SleepMode}
    \cup {[op |-> "Unlock", args |-> <<v>>] : v \in UnlockType}
    \cup {[op |-> "UserAction", args |-> <<v>>] : v \in UserActionType}

\* the constructor of class op raises
init_raises(op, args) == op = "LED" /\ LED_init_raises(args[1], args[2])

\* the object the constructor of class op makes of args
NewCommand(op, args) ==
    CASE op = "SetMode" -> SetMode(args[1], args[2], args[3])
      [] op = "Vibrate" -> Vibrate(args[1])
      [] op = "DeepSleep" -> DeepSleep
      [] op = "LED" -> LED(args[1], args[2])
      [] op = "Vibrate2" -> Vibrate2(args[1], args[2])
      [] op = "SetSleepMode" -> SetSleepMode(args[1])
      [] op = "Unlock" -> Unlock(args[1])
      [] op = "UserAction" -> UserAction(args[1])

\* What the codec leaves alone.
codecFrame ==
    <<m, aggregate_all, aggregate_emg, classifier_mode, emg_mode, imu_mode, client,
      fv_aggregated, imu_aggregated, link, subscribed, calls, lastStart>>

\* The caller constructs a command: the constructor raises, or the caller
\* holds the object (ret).
ConstructCommand ==
    /\ pc = "idle"
    /\ \E in \in CommandInputs :
          /\ call' = in
          /\ IF init_raises(in.op, in.args)
             THEN /\ pc' = "done"
                  /\ result' = LEDFormatError
                  /\ ret' = <<>>
                  /\ trace' = <<Entry("__init__", 0, <<>>, "", LEDFormatError)>>
             ELSE /\ pc' = "built"
                  /\ result' = None
                  /\ ret' = <<NewCommand(in.op, in.args)>>
                  /\ trace' = <<Entry("__init__", 0, <<>>, "", "ok")>>
    /\ UNCHANGED codecFrame
    /\ UNCHANGED notifyVars

\* The caller reads the data property of the command it holds: bytearray()
\* raises on the payload, or ret is the frame.
EncodeCommand ==
    /\ pc = "built"
    /\ pc' = "done"
    /\ IF bytearray_raises(ret[1].payload)
       THEN /\ result' = ByteRangeError
            /\ ret' = <<>>
            /\ trace' = Append(trace, Entry("data", 0, ret[1].payload, "", ByteRangeError))
       ELSE /\ result' = None
            /\ ret' = <<CommandData(ret[1])>>
            /\ trace' = Append(trace, Entry("data", 0, ret[1].payload, "", "ok"))
    /\ UNCHANGED <<call, codecFrame>>
    /\ UNCHANGED notifyVars

\* Myo.led(client, logo, line) called on the Myo itself
MyoLed ==
    \E logo \in ColourInputs, line \in ColourInputs :
        Complete("Myo.led", <<logo, line>>, Myo_led(Ctx, logo, line))

\* a buffer, the buffer a byte short and the buffer a byte long
WithLengths(b) == {SubSeq(b, 1, Len(b) - 1), b, Append(b, 0)}
\* the buffers the constructors of types.py are called with, by class: for
\* the events every tag and known and unknown values of the variant fields
\* over two fillings of the other bytes, for the samples two contents
DecoderBuffers ==
    [ClassifierEvent |->
        UNION {WithLengths(<<t, a, b, f, f, f>>) :
                  t \in 0..7, a \in {0, 1, 3, 6, 255}, b \in {0, 1, 2, 255}, f \in {0, 255}},
     MotionEvent |->
        UNION {WithLengths(<<t, a, b>>) : t \in {0, 1, 2, 3, 255}, a \in {0, 255}, b \in {0, 7, 255}},
     EMGData |->
        UNION {WithLengths([i \in 1..16 |-> IF i \in {1, 9} THEN v ELSE 0]) : v \in {1, 127, 128}}
        \cup WithLengths([i \in 1..16 |-> 120 + i])
        \cup {<<>>, <<1, 2, 3, 4, 5, 6, 7, 8>>, [i \in 1..16 |-> 256 - i]},
     FVData |->
        UNION {WithLengths([i \in 1..17 |-> IF i \in {1, 17} THEN v ELSE 1]) : v \in {0, 128, 255}},
     IMUData |->
        UNION {WithLengths([i \in 1..20 |-> IF i % 2 = 0 THEN v ELSE 64]) : v \in {0, 128, 255}},
     FirmwareVersion |->
        UNION {WithLengths(<<1, 0, 5, 0, 178, 7, r, h>>) : r \in 0..4, h \in {0, 1}}
        \cup UNION {WithLengths(<<0, 0, 10, 1, 255, 255, r, 0>>) : r \in 0..4},
     FirmwareInfo |->
        UNION {WithLengths(<<142, 50, 148, 133, 59, 5, p[1], p[2], c, 0, h, 0, k, 0,
                             0, 0, 0, 0, 0, 0>>) :
                  p \in {<<0, 0>>, <<5, 0>>, <<5, 5>>, <<255, 255>>},
                  c \in {0, 2}, h \in {0, 1}, k \in {0, 3}}]

\* the constructor of class cls applied to data
Construct(cls, data) ==
    CASE cls = "ClassifierEvent" -> ClassifierEvent(data)
      [] cls = "MotionEvent" -> MotionEvent(data)
      [] cls = "EMGData" -> EMGData(data)
      [] cls = "FVData" -> FVData(data)
      [] cls = "IMUData" -> IMUData(data)
      [] cls = "FirmwareVersion" -> FirmwareVersion(data)
      [] cls = "FirmwareInfo" -> FirmwareInfo(data)

\* The caller constructs an object of a class of types.py from a buffer:
\* the constructor raises, or the caller holds the object (ret).
DecodeBuffer ==
    /\ pc = "idle"
    /\ \E cls \in DOMAIN DecoderBuffers :
          \E data \in DecoderBuffers[cls] :
              LET v == Construct(cls, data)
              IN  /\ call' = [op |-> cls, args |-> <<data>>]
                  /\ result' = IF v.type = "error" THEN v.err ELSE None
                  /\ ret' = IF v.type = "error" THEN <<>> ELSE <<v>>
    /\ pc' = "done"
    /\ trace' = <<>>
    /\ UNCHANGED codecFrame
    /\ UNCHANGED notifyVars

\* The caller awaits the class method op(args) of Myo, which ends in one
\* of the contexts S; it makes no session.
CompleteDiscovery(op, args, S) ==
    /\ pc = "idle"
    /\ calls < MaxCalls
    /\ \E d \in S :
          /\ trace' = d.tr
          /\ result' = d.err
          /\ ret' = d.ret
    /\ pc' = "done"
    /\ call' = [op |-> op, args |-> args]
    /\ calls' = calls + 1
    /\ UNCHANGED <<m, aggregate_all, aggregate_emg, classifier_mode, emg_mode, imu_mode,
                   client, fv_aggregated, imu_aggregated, link, subscribed, lastStart>>
    /\ UNCHANGED notifyVars

WithMac ==
    \E mac \in MacInputs, seen \in SeenInputs :
        CompleteDiscovery("with_mac", <<mac>>, Myo_with_mac(MyoCtx, seen, mac))

WithUuid ==
    \E seen \in SeenInputs :
        CompleteDiscovery("with_uuid", <<>>, Myo_with_uuid(MyoCtx, seen))

\* -------------------------------------------------------- specifications
\* The object as MyoClient.__init__ leaves it; the caller either holds it
\* (pc = "idle") or is inside with_device() (pc = "scan").
Init ==
    /\ m = None
    /\ aggregate_all \in BOOLEAN
    /\ aggregate_emg = FALSE
    /\ classifier_mode = None
    /\ emg_mode = None
    /\ imu_mode = None
    /\ client = None
    /\ fv_aggregated = <<>>
    /\ imu_aggregated = <<>>
    /\ link = FALSE
    /\ subscribed = NoSubscriptions
    /\ pc \in {"scan", "idle"}
    /\ call \in IF pc = "scan"
                THEN {[op |-> "with_device", args |-> <<mac>>] : mac \in WithDeviceInputs}
                ELSE {NoCall}
    /\ trace = <<>>
    /\ result = None
    /\ ret = <<>>
    /\ calls = 0
    /\ lastStart = NoStart
    /\ NoNotifications

Next ==
    \/ WithDeviceScan
    \/ WithDeviceConnect
    \/ Ack
    \/ BatteryLevel
    \/ Connect
    \/ DeepSleepCall
    \/ Disconnect
    \/ GetServices
    \/ Led
    \/ SetModeCall
    \/ SetSleepModeCall
    \/ Setup
    \/ Sleep
    \/ Start
    \/ StartNotify
    \/ Stop
    \/ StopNotify
    \/ UnlockCall
    \/ UserActionCall
    \/ VibrateCall
    \/ Vibrate2Call

Spec == Init /\ [][Next]_vars

\* A session as with_device() returns it: discovered and connected, no
\* mode stored yet; setup() is called with any mode triple.
InitConnected ==
    /\ m = "Myo"
    /\ aggregate_all \in BOOLEAN
    /\ aggregate_emg = FALSE
    /\ classifier_mode = None
    /\ emg_mode = None
    /\ imu_mode = None
    /\ client = "BleakClient"
    /\ fv_aggregated = <<>>
    /\ imu_aggregated = <<>>
    /\ link = TRUE
    /\ subscribed = NoSubscriptions
    /\ pc = "idle"
    /\ call = NoCall
    /\ trace = <<>>
    /\ result = None
    /\ ret = <<>>
    /\ calls = 0
    /\ lastStart = NoStart
    /\ NoNotifications

SetupAny ==
    \E t \in AllTriples : Complete("setup", t, MyoClient_setup(Ctx, t[1], t[2], t[3]))

NextSetup ==
    \/ SetupAny
    \/ Ack

SpecSetup == InitConnected /\ [][NextSetup]_vars

\* A caller inside with_device(mac), to its end.
InitWithDevice == Init /\ pc = "scan"

NextWithDevice ==
    \/ WithDeviceScan
    \/ WithDeviceConnect

SpecWithDevice == InitWithDevice /\ [][NextWithDevice]_vars

\* The event loop resumes with_device after each await: once the discovery
\* loop has ended, connect() is run.
FairWithDevice == SpecWithDevice /\ WF_vars(WithDeviceConnect)

\* core.MyoClient.set_mode with any mode triple
SetModeAny ==
    \E t \in AllTriples : Complete("set_mode", t, MyoClient_set_mode(Ctx, t[1], t[2], t[3]))

\* client.MyoClient.set_mode with any EMG, IMU and classifier mode
ClientSetMode ==
    \E em \in EMGMode, im \in IMUMode, cm \in ClassifierMode :
        Complete("client.set_mode", <<em, im, cm>>,
                 client_MyoClient_set_mode(Ctx, <<"EMGMode", em>>, <<"IMUMode", im>>,
                                           <<"ClassifierMode", cm>>))

\* A connected session whose caller sets the modes through either client.
NextSetMode ==
    \/ SetModeAny
    \/ ClientSetMode
    \/ Ack

SpecSetMode == InitConnected /\ [][NextSetMode]_vars

\* A connected session whose caller configures, starts and stops in any
\* order.
NextReconfigure ==
    \/ Setup
    \/ Start
    \/ Stop
    \/ Ack

SpecReconfigure == InitConnected /\ [][NextReconfigure]_vars

\* A connected session after a setup() that stored a mode triple: any
\* triple when aggregate_all is off, the enforced one when it is on.
InitConfigured ==
    /\ m = "Myo"
    /\ aggregate_all \in BOOLEAN
    /\ aggregate_emg = FALSE
    /\ \E t \in AllTriples :
          /\ aggregate_all => t = <<"DISABLED", "SEND_FILT", "SEND_DATA">>
          /\ classifier_mode = t[1]
          /\ emg_mode = t[2]
          /\ imu_mode = t[3]
    /\ client = "BleakClient"
    /\ fv_aggregated = <<>>
    /\ imu_aggregated = <<>>
    /\ link = TRUE
    /\ subscribed = NoSubscriptions
    /\ pc = "idle"
    /\ call = NoCall
    /\ trace = <<>>
    /\ result = None
    /\ ret = <<>>
    /\ calls = 0
    /\ lastStart = NoStart
    /\ NoNotifications

NextPolicy ==
    \/ Start
    \/ Stop
    \/ Ack

SpecPolicy == InitConfigured /\ [][NextPolicy]_vars

\* A caller that discovers devices with the class methods of Myo.
InitDiscovery == Init /\ pc = "idle" /\ ~aggregate_all

NextDiscovery ==
    \/ WithMac
    \/ WithUuid
    \/ Ack

SpecDiscovery == InitDiscovery /\ [][NextDiscovery]_vars

\* A caller that holds a Myo and a connected BleakClient and sets the LEDs.
NextLed ==
    \/ MyoLed
    \/ Ack

SpecLed == InitConnected /\ [][NextLed]_vars

\* A caller that decodes buffers.
NextDecoder ==
    \/ DecodeBuffer
    \/ Ack

SpecDecoder == InitDiscovery /\ [][NextDecoder]_vars

\* A caller that builds commands and encodes them.
NextCodec ==
    \/ ConstructCommand
    \/ EncodeCommand
    \/ Ack

SpecCodec == InitDiscovery /\ [][NextCodec]_vars

\* A connected, configured session whose notifying characteristics are all
\* subscribed with notify_callback.
InitStreaming ==
    /\ m = "Myo"
    /\ aggregate_all \in BOOLEAN
    /\ aggregate_emg \in BOOLEAN
    /\ classifier_mode = "DISABLED"
    /\ emg_mode = "SEND_FILT"
    /\ imu_mode = "SEND_DATA"
    /\ client = "BleakClient"
    /\ fv_aggregated = <<>>
    /\ imu_aggregated = <<>>
    /\ link = TRUE
    /\ subscribed = [h \in NotifyHandles |-> "notify_callback"]
    /\ pc = "idle"
    /\ call = NoCall
    /\ trace = <<>>
    /\ result = None
    /\ ret = <<>>
    /\ calls = 0
    /\ lastStart = NoStart
    /\ NoNotifications

NextRoute ==
    \/ DeliverAlone
    \/ HookReturn
    \/ HookRaise

SpecRoute == InitStreaming /\ [][NextRoute]_vars

\* The same session created with aggregate_all.
InitAggregating == InitStreaming /\ aggregate_all

NextAggregate ==
    \/ DeliverConcurrent
    \/ LockAcquire
    \/ HookReturn
    \/ HookRaise

SpecAggregate == InitAggregating /\ [][NextAggregate]_vars

\* The event loop runs every task that is ready: a task the released lock
\* wakes up goes on, and each on_aggregated_data call ends, by returning or
\* by raising.
FairAggregate ==
    /\ SpecAggregate
    /\ WF_vars(LockAcquire)
    /\ WF_vars(HookReturn \/ HookRaise)

\* ================================================================ claims
\* the caller has just got the outcome of operation op
Completed(op) == pc = "done" /\ call.op = op
Returned(op) == Completed(op) /\ result = None
\* the step is the caller running operation op to its end
Runs(op) == pc = "idle" /\ pc' = "done" /\ call'.op = op
StoredTriple == <<classifier_mode, emg_mode, imu_mode>>
SeqRange(q) == {q[i] : i \in 1..Len(q)}
IsCommand(e, cmd) == e.op = "write" /\ e.handle = COMMAND /\ e.data = CommandData(cmd)

\* C1: when stop() returns and the stored mode triple is the one the last
\* successful start() ran with, the handles stop() passed to stop_notify are
\* the handles that start() passed to start_notify, in the same order.
C1_StartStopSameHandles ==
    (Returned("stop") /\ lastStart # NoStart /\ lastStart.modes = StoredTriple)
        => HandlesOf(trace, "stop_notify") = lastStart.handles

C1_Witness ==
    /\ Returned("stop")
    /\ lastStart.modes = StoredTriple
    /\ lastStart.handles = <<FV_DATA, IMU_DATA, MOTION_EVENT, CLASSIFIER_EVENT>>

\* the handle set of a mode triple, as the specification states it
PolicySet(cm, em, im) ==
    (IF em \in {"SEND_EMG", "SEND_RAW"}
     THEN {EMG0_DATA, EMG1_DATA, EMG2_DATA, EMG3_DATA}
     ELSE IF em = "SEND_FILT" THEN {FV_DATA} ELSE {})
    \cup {h \in {IMU_DATA} : im # "NONE" /\ im # "SEND_EVENTS"}
    \cup {h \in {MOTION_EVENT} : im = "SEND_EVENTS" \/ im = "SEND_ALL"}
    \cup {h \in {CLASSIFIER_EVENT} : cm = "ENABLED"}

\* C2: the handles a returning start() subscribed, and the handles a
\* returning stop() unsubscribed, are exactly the policy set of the stored
\* triple; (ENABLED, SEND_FILT, SEND_ALL) gives FV_DATA, IMU_DATA,
\* MOTION_EVENT and CLASSIFIER_EVENT, (DISABLED, NONE, NONE) gives nothing.
C2_PolicyHandles ==
    /\ Returned("start") =>
          SeqRange(HandlesOf(trace, "start_notify"))
              = PolicySet(classifier_mode, emg_mode, imu_mode)
    /\ Returned("stop") =>
          SeqRange(HandlesOf(trace, "stop_notify"))
              = PolicySet(classifier_mode, emg_mode, imu_mode)
    /\ (Returned("start") /\ StoredTriple = <<"ENABLED", "SEND_FILT", "SEND_ALL">>) =>
          SeqRange(HandlesOf(trace, "start_notify"))
              = {FV_DATA, IMU_DATA, MOTION_EVENT, CLASSIFIER_EVENT}
    /\ (Returned("start") /\ StoredTriple = <<"DISABLED", "NONE", "NONE">>) =>
          HandlesOf(trace, "start_notify") = <<>>

C2_Witness ==
    /\ Returned("start")
    /\ StoredTriple = <<"ENABLED", "SEND_RAW", "SEND_EVENTS">>
    /\ Len(HandlesOf(trace, "start_notify")) = 6

\* C3: on a connected session with no stored mode triple, start() and
\* stop() raise the modes-not-set error, issue no transport call and change
\* nothing of the session.
C3_StartStopNeedModes ==
    [][((Runs("start") \/ Runs("stop")) /\ client # None
            /\ StoredTriple = <<None, None, None>>)
          => /\ result' = ModesNotSetError
             /\ trace' = <<>>
             /\ UNCHANGED <<m, client, link, classifier_mode, emg_mode, imu_mode,
                            subscribed, fv_aggregated, imu_aggregated>>]_vars

C3_Witness ==
    /\ Completed("start")
    /\ result = ModesNotSetError
    /\ client # None
    /\ link
    /\ StoredTriple = <<None, None, None>>

\* the operations of MyoClient that need the transport
TransportOps ==
    {"battery_level", "deep_sleep", "get_services", "led", "set_mode", "set_sleep_mode",
     "setup", "start", "stop", "start_notify", "stop_notify", "unlock", "user_action",
     "vibrate", "vibrate2"}

\* C4: with no connection, each operation that needs the transport raises
\* an error, issues no transport call and changes nothing of the session;
\* disconnect() returns normally, also without a transport call or a change.
C4_NotConnectedFailsFast ==
    [][(pc = "idle" /\ pc' = "done" /\ client = None
            /\ call'.op \in TransportOps \cup {"disconnect"})
          => /\ (call'.op \in TransportOps) => result' # None
             /\ (call'.op = "disconnect") => result' = None
             /\ trace' = <<>>
             /\ UNCHANGED <<m, client, link, classifier_mode, emg_mode, imu_mode,
                            subscribed, fv_aggregated, imu_aggregated>>]_vars

C4_Witness ==
    /\ Completed("setup")
    /\ result = NotConnectedError
    /\ client = None
    /\ trace = <<>>
    /\ m # None

\* C5: a returning setup() issued exactly eight transport calls, in this
\* order: LED (orange), battery read, Vibrate(SHORT) three times,
\* SetSleepMode(NEVER_SLEEP), SetMode, LED (pink).
C5_SetupSequence ==
    Returned("setup") =>
        /\ Len(trace) = 8
        /\ IsCommand(trace[1], LED(RGB_ORANGE, RGB_ORANGE))
        /\ trace[2].op = "read" /\ trace[2].handle = BATTERY_LEVEL
        /\ \A i \in 3..5 : IsCommand(trace[i], Vibrate("SHORT"))
        /\ IsCommand(trace[6], SetSleepMode("NEVER_SLEEP"))
        /\ \E t \in AllTriples : IsCommand(trace[7], SetMode(t[1], t[2], t[3]))
        /\ IsCommand(trace[8], LED(RGB_PINK, RGB_PINK))

C5_Witness == Returned("setup") /\ call.args = <<"ENABLED", "SEND_EMG", "SEND_ALL">>

\* the triple setup() enforces on a client created with aggregate_all
EnforcedTriple == <<"DISABLED", "SEND_FILT", "SEND_DATA">>

\* C6 as claimed: after a returning setup(), the SetMode command it sent
\* carries the requested triple and the stored triple is the requested one,
\* with aggregate_all on or off.
C6_SetupAppliesRequested ==
    Returned("setup") =>
        /\ \E i \in 1..Len(trace) :
              IsCommand(trace[i], SetMode(call.args[1], call.args[2], call.args[3]))
        /\ StoredTriple = call.args

\* C6 as amended: after a returning setup(), the SetMode command it sent
\* carries the stored triple, which is the requested triple when
\* aggregate_all is off and (DISABLED, SEND_FILT, SEND_DATA) when it is on.
C6_SetupAppliesRequestedOrEnforced ==
    Returned("setup") =>
        LET t == IF aggregate_all THEN EnforcedTriple ELSE call.args
        IN  /\ \A i \in 1..Len(trace) :
                  (trace[i].op = "write" /\ trace[i].data[1] = 1)
                      => IsCommand(trace[i], SetMode(t[1], t[2], t[3]))
            /\ \E i \in 1..Len(trace) : IsCommand(trace[i], SetMode(t[1], t[2], t[3]))
            /\ StoredTriple = t

C6_Witness ==
    /\ Returned("setup")
    /\ aggregate_all
    /\ call.args = <<"ENABLED", "SEND_EMG", "SEND_ALL">>
    /\ StoredTriple = EnforcedTriple

\* C7 as claimed: a setup() that ends with the error of a transport call
\* issued nothing after the failed call and left the stored mode triple as
\* it was before the call.
C7_FailedSetupKeepsModes ==
    [][(Runs("setup") /\ result' \in TransportErrors \cup {EmptyBatteryError})
          => /\ \A i \in 1..(Len(trace') - 1) : trace'[i].out = "ok"
             /\ <<classifier_mode, emg_mode, imu_mode>>'
                    = <<classifier_mode, emg_mode, imu_mode>>]_vars

\* C8 as claimed: a start() that ends with the error of a transport call
\* leaves the subscribed handles as they were before the call.
C8_FailedStartKeepsSubscriptions ==
    [][(Runs("start") /\ result' \in TransportErrors) => subscribed' = subscribed]_vars

\* C9: a returning start() issued one Vibrate(SHORT) write, then one
\* start_notify with notify_callback for every handle of the policy set of
\* the stored triple, each handle once, then one LED (cyan) write, and
\* nothing else.
C9_StartSequence ==
    Returned("start") =>
        LET hs == HandlesOf(trace, "start_notify")
            n == Len(hs)
        IN  /\ Len(trace) = n + 2
            /\ IsCommand(trace[1], Vibrate("SHORT"))
            /\ \A i \in 2..(n + 1) :
                  trace[i].op = "start_notify" /\ trace[i].cb = "notify_callback"
            /\ IsCommand(trace[n + 2], LED(RGB_CYAN, RGB_CYAN))
            /\ SeqRange(hs) = PolicySet(classifier_mode, emg_mode, imu_mode)
            /\ n = Cardinality(PolicySet(classifier_mode, emg_mode, imu_mode))

C9_Witness ==
    /\ Returned("start")
    /\ StoredTriple = <<"ENABLED", "SEND_EMG", "SEND_ALL">>
    /\ Len(trace) = 9

SessionState ==
    <<m, aggregate_all, aggregate_emg, classifier_mode, emg_mode, imu_mode,
      client, fv_aggregated, imu_aggregated, link, subscribed>>

\* C11: a disconnect() that returns on a session holding a connection has
\* closed the transport connection with exactly one call and cleared the
\* connection; a disconnect() on a session holding none returns normally,
\* makes no transport call and changes no state.
C11_DisconnectIdempotent ==
    [][Runs("disconnect") =>
          IF client = None
          THEN /\ result' = None
               /\ trace' = <<>>
               /\ SessionState' = SessionState
          ELSE result' = None =>
                  /\ Len(trace') = 1
                  /\ trace'[1].op = "disconnect"
                  /\ trace'[1].out = "ok"
                  /\ client' = None
                  /\ link' = FALSE]_vars

C11_Witness ==
    /\ Returned("disconnect")
    /\ trace = <<>>
    /\ m # None
    /\ client = None

\* a discovered session that holds no connection and is not inside
\* with_device(): its disconnect() has completed
Disconnected == m # None /\ client = None /\ pc # "scan"

\* C12 as claimed: once disconnect() has completed, no operation brings the
\* session back to a connected state (a BleakClient that is connected).
C12_DisconnectedIsTerminal ==
    [][Disconnected => link' = FALSE]_vars

\* C12 as amended: once disconnect() has completed, connect() is the only
\* operation that brings the session back to a connected state, which it
\* does whenever it returns; every other operation leaves the session
\* without a connection.
C12_OnlyConnectReconnects ==
    [][Disconnected =>
          IF Runs("connect") /\ result' = None
          THEN client' # None /\ link' = TRUE
          ELSE link' = FALSE /\ (Runs("connect") \/ client' = None)]_vars

C12_Witness ==
    /\ Completed("start")
    /\ result = NotConnectedError
    /\ m # None
    /\ client = None
    /\ link = FALSE

\* C13: a sleep() that returns has issued one LED (pink) write, then one
\* SetSleepMode(NORMAL) write, then the disconnect, and nothing else, and
\* leaves the session without a connection.
C13_SleepSequence ==
    Returned("sleep") =>
        /\ Len(trace) = 3
        /\ IsCommand(trace[1], LED(RGB_PINK, RGB_PINK))
        /\ IsCommand(trace[2], SetSleepMode("NORMAL"))
        /\ trace[3].op = "disconnect"
        /\ client = None
        /\ link = FALSE

C13_Witness == Returned("sleep") /\ Len(trace) = 3 /\ emg_mode # None

\* ---------------------------------------------------- the aggregator
\* the hook calls that handed an AggregatedData to the consumer
Emitted == {i \in 1..Len(hooks) : hooks[i].hook = "on_aggregated_data"}
\* the step is task t storing its sample in on_data
Ingests(t) == Len(ingested') = Len(ingested) + 1 /\ ingested'[Len(ingested')].task = t
\* the step ends the notify_callback of task t
Ends(t) == tasks[t].pc # "done" /\ tasks'[t].pc = "done"
\* the sample of kind type that on_data stored last, as a slot
LastIngested(q, type) ==
    LET I == {i \in 1..Len(q) : q[i].data.type = type}
    IN  IF I = {} THEN <<>> ELSE <<q[CHOOSE i \in I : \A j \in I : j <= i].data>>

\* C14 as claimed: from empty slots, the on_data of a first sample hands the
\* consumer nothing and keeps the sample; the on_data of a sample whose
\* partner is pending hands the consumer exactly one AggregatedData made of
\* the two; and when the on_data call of a sample is over both slots are
\* empty or it was the first of a pair, so that the next sample alone hands
\* the consumer nothing.
C14_PairThenClear ==
    [][\A t \in Tasks :
          /\ (Ingests(t) /\ fv_aggregated = <<>> /\ imu_aggregated = <<>>)
                => /\ hooks' = hooks
                   /\ <<fv_aggregated', imu_aggregated'>> \in
                          {<<<<ingested'[Len(ingested')].data>>, <<>>>>,
                           <<<<>>, <<ingested'[Len(ingested')].data>>>>}
          /\ (Ingests(t) /\ tasks'[t].handle = FV_DATA
                /\ fv_aggregated = <<>> /\ imu_aggregated # <<>>)
                => hooks' = HookCall(t, "on_aggregated_data",
                                     AggregatedData(ingested'[Len(ingested')].data,
                                                    imu_aggregated[1]))
          /\ (Ingests(t) /\ tasks'[t].handle = IMU_DATA
                /\ fv_aggregated # <<>> /\ imu_aggregated = <<>>)
                => hooks' = HookCall(t, "on_aggregated_data",
                                     AggregatedData(fv_aggregated[1],
                                                    ingested'[Len(ingested')].data))
          /\ (Ends(t) /\ \E i \in Emitted : hooks[i].task = t)
                => (fv_aggregated' = <<>> /\ imu_aggregated' = <<>>)]_vars

\* C15: the aggregator is latest-wins: every AggregatedData handed to the
\* consumer is made of the FV sample and the IMU sample that on_data stored
\* last, so a sample replaced by a later one of its kind before the other
\* kind arrived is in no AggregatedData.
C15_LatestWins ==
    [][Len(hooks') > Len(hooks) =>
          LET e == hooks'[Len(hooks')]
          IN  /\ e.hook = "on_aggregated_data"
              /\ <<e.arg.fv>> = LastIngested(ingested', "FVData")
              /\ <<e.arg.imu>> = LastIngested(ingested', "IMUData")]_vars

C15_Witness ==
    /\ Len(ingested) = 3
    /\ ingested[1].data.type = "FVData"
    /\ ingested[2].data.type = "FVData"
    /\ ingested[3].data.type = "IMUData"
    /\ Len(hooks) = 1
    /\ hooks[1].arg = AggregatedData(ingested[2].data, ingested[3].data)

\* C16 as claimed: only the task that holds the lock is between the store
\* and the clear of on_data, every sample that on_data stored is in at most
\* one AggregatedData handed to the consumer, and every such AggregatedData
\* is made of one FV and one IMU sample.
C16_SerializedPairs ==
    /\ \A t \in Tasks : tasks[t].pc = "aggregated" => lock = t
    /\ \A i \in Emitted :
          hooks[i].arg.fv.type = "FVData" /\ hooks[i].arg.imu.type = "IMUData"
    /\ \A i, j \in Emitted :
          i # j => /\ hooks[i].arg.fv # hooks[j].arg.fv
                   /\ hooks[i].arg.imu # hooks[j].arg.imu

\* C17 as claimed: whenever no on_data call holds the lock, at most one of
\* the two slots is populated.
C17_EmitAndClearAtomic ==
    lock = 0 => ~(fv_aggregated # <<>> /\ imu_aggregated # <<>>)

\* ------------------------------------------------------ the routing
\* the hook calls of task t, in order
HooksOf(t) == SelectSeq(hooks, LAMBDA e : e.task = t)
\* the notify_callback of task t has returned
NotifyReturned(t) == tasks[t].pc = "done" /\ tasks[t].err = None
EMGHandles == {EMG0_DATA, EMG1_DATA, EMG2_DATA, EMG3_DATA}

\* the samples on_data stored came from task t
Forwarded(t) == \E i \in 1..Len(ingested) : ingested[i].task = t
\* what notify_callback decodes from the payload of task t
Decoded(t) ==
    LET h == tasks[t].handle
        data == buffers[t]
    IN  CASE h = CLASSIFIER_EVENT -> ClassifierEvent(data)
          [] h = FV_DATA -> FVData(data)
          [] h = IMU_DATA -> IMUData(data)
          [] h = MOTION_EVENT -> MotionEvent(data)
          [] OTHER -> EMGData(data)

\* C18: no step of the notify_callback of a notification from EMG0..EMG3
\* changes the slots of the aggregator; when that notify_callback has
\* returned it has made exactly one on_emg_data call with the whole EMGData
\* if aggregate_emg is off, and exactly two on_emg_data_aggregated calls,
\* sample1 then sample2, and no on_emg_data call if aggregate_emg is on.
C18_EMGNotAggregated ==
    [][\A t \in Tasks :
          (tasks'[t].handle \in EMGHandles /\ tasks'[t] # tasks[t]) =>
              /\ fv_aggregated' = fv_aggregated
              /\ imu_aggregated' = imu_aggregated
              /\ ingested' = ingested
              /\ NotifyReturned(t)' =>
                    HooksOf(t)' =
                        IF aggregate_emg
                        THEN <<[task |-> t, hook |-> "on_emg_data_aggregated",
                                arg |-> EMGDataSingle(Decoded(t)'.sample1)],
                               [task |-> t, hook |-> "on_emg_data_aggregated",
                                arg |-> EMGDataSingle(Decoded(t)'.sample2)]>>
                        ELSE <<[task |-> t, hook |-> "on_emg_data",
                                arg |-> Decoded(t)']>>]_vars

C18_Witness ==
    /\ aggregate_emg
    /\ aggregate_all
    /\ fv_aggregated # <<>>
    /\ tasks[2].handle = EMG3_DATA
    /\ NotifyReturned(2)
    /\ Len(HooksOf(2)) = 2

\* the dedicated hook of a data handle
DedicatedHook(h) ==
    CASE h = CLASSIFIER_EVENT -> "on_classifier_event"
      [] h = MOTION_EVENT -> "on_motion_event"
      [] h = FV_DATA -> "on_fv_data"
      [] h = IMU_DATA -> "on_imu_data"
      [] OTHER -> IF aggregate_emg THEN "on_emg_data_aggregated" ELSE "on_emg_data"
DataHandles == {CLASSIFIER_EVENT, MOTION_EVENT, FV_DATA, IMU_DATA} \cup EMGHandles
\* task t has run notify_callback for a well-formed notification of a data
\* handle
Routed(t) ==
    /\ tasks[t].pc # "new"
    /\ tasks[t].handle \in DataHandles
    /\ buffers[t] = Payload(tasks[t].handle, t)

\* C19 as claimed: every notification of a data handle reaches the
\* dedicated hook of its handle; with aggregate_all an FV or IMU
\* notification is forwarded to on_data in addition.
C19_RoutedToDedicatedHook ==
    \A t \in Tasks :
        Routed(t) =>
            /\ HooksOf(t) # <<>>
            /\ HooksOf(t)[1].hook = DedicatedHook(tasks[t].handle)
            /\ Forwarded(t) <=> (aggregate_all /\ tasks[t].handle \in {FV_DATA, IMU_DATA})

\* C19 as amended: every notification of a data handle reaches the
\* dedicated hook of its handle with the decoded value and is not forwarded
\* to on_data, except that with aggregate_all an FV or IMU notification is
\* forwarded to on_data instead and does not reach on_fv_data / on_imu_data.
C19_RoutedToHookOrAggregator ==
    \A t \in Tasks :
        Routed(t) =>
            IF aggregate_all /\ tasks[t].handle \in {FV_DATA, IMU_DATA}
            THEN /\ Forwarded(t)
                 /\ \A i \in 1..Len(HooksOf(t)) : HooksOf(t)[i].hook = "on_aggregated_data"
            ELSE /\ ~Forwarded(t)
                 /\ HooksOf(t) # <<>>
                 /\ \A i \in 1..Len(HooksOf(t)) :
                       HooksOf(t)[i].hook = DedicatedHook(tasks[t].handle)
                 /\ tasks[t].handle \notin EMGHandles => HooksOf(t)[1].arg = Decoded(t)

C19_Witness ==
    /\ aggregate_all
    /\ tasks[1].handle = FV_DATA
    /\ NotifyReturned(1)
    /\ Forwarded(1)
    /\ HooksOf(1) = <<>>
    /\ tasks[2].handle = CLASSIFIER_EVENT
    /\ HooksOf(2) # <<>>

\* C20 as claimed: a notification whose handle the handle table does not
\* list, or lists without a decoder, is dropped: notify_callback returns
\* normally, calls no hook and stores nothing.
C20_UnknownHandleDropped ==
    \A t \in Tasks :
        (tasks[t].pc # "new" /\ tasks[t].handle \notin DataHandles) =>
            /\ NotifyReturned(t)
            /\ HooksOf(t) = <<>>
            /\ ~Forwarded(t)

\* ------------------------------------------------- malformed payloads
\* the exceptions the constructors of types.py raise on a malformed buffer
DecodeErrors == {"struct.error", "ValueError", "AssertionError"}
\* the buffer of task t has a wrong length for its handle or holds a value
\* the enum of its field does not list
MalformedBuffer(t) == buffers[t] \in Malformed(tasks[t].handle, t)

\* C21: the notify_callback of a notification of a data handle whose
\* payload is malformed (wrong length, or a value no enum lists) ends in
\* its first step by raising the error of the decoder; that step calls no
\* hook, stores nothing and leaves both slots and the lock as they were,
\* and no hook is ever called for that notification.
C21_MalformedFailsBeforeHooks ==
    [][\A t \in Tasks :
          (tasks'[t].pc # "new" /\ tasks'[t].handle \in DataHandles /\ MalformedBuffer(t)') =>
              /\ tasks'[t].pc = "done"
              /\ tasks'[t].err \in DecodeErrors
              /\ tasks'[t].err = Decoded(t)'.err
              /\ HooksOf(t)' = <<>>
              /\ ~Forwarded(t)'
              /\ tasks[t].pc = "new" =>
                    /\ hooks' = hooks
                    /\ ingested' = ingested
                    /\ fv_aggregated' = fv_aggregated
                    /\ imu_aggregated' = imu_aggregated
                    /\ lock' = lock]_vars

C21_Witness ==
    /\ aggregate_all
    /\ tasks[1].handle = IMU_DATA
    /\ NotifyReturned(1)
    /\ imu_aggregated # <<>>
    /\ tasks[2].handle = FV_DATA
    /\ Len(buffers[2]) = 16
    /\ tasks[2].err = "AssertionError"
    /\ hooks = <<>>

\* ----------------------------------------------------------- discovery
\* two characters that are equal up to case
SameChar(a, b) ==
    \/ a = b
    \/ \E pair \in {<<"a", "A">>, <<"b", "B">>, <<"c", "C">>, <<"d", "D">>, <<"e", "E">>,
                     <<"f", "F">>} : {a, b} = {pair[1], pair[2]}
\* two strings that are equal ignoring case
SameIgnoringCase(x, y) == Len(x) = Len(y) /\ \A i \in 1..Len(x) : SameChar(x[i], y[i])
\* the detected device dev is a match for the completed discovery call
IsMatch(dev) ==
    IF call.op = "with_mac"
    THEN SameIgnoringCase(call.args[1], dev.address)
    ELSE \E k \in 1..Len(dev.service_uuids) : SameIgnoringCase(MYO_SERVICE, dev.service_uuids[k])
\* the first match among the devices the scan detected, as <<dev>>, or <<>>
FirstMatch(seen) ==
    LET I == {i \in 1..Len(seen) : IsMatch(seen[i])}
    IN  IF I = {} THEN <<>> ELSE <<seen[CHOOSE i \in I : \A j \in I : i <= j]>>

\* C22: a completed with_mac or with_uuid has made exactly one scan request;
\* when that scan detected a match (address equal ignoring case, or Myo
\* service UUID among the advertised ones) the call returned a Myo holding
\* the first device matched; when the scan ended without a match the call
\* returned None; and a call whose scan failed returned no Myo.
C22_OneScanPerDiscovery ==
    (Completed("with_mac") \/ Completed("with_uuid")) =>
        /\ Len(trace) = 1
        /\ trace[1].op = "scan"
        /\ IF trace[1].out # "ok"
           THEN ret = <<>>
           ELSE /\ result = None
                /\ IF FirstMatch(trace[1].data) = <<>>
                   THEN ret = <<>>
                   ELSE ret = <<[_device |-> FirstMatch(trace[1].data)]>>

C22_Witness ==
    /\ Returned("with_mac")
    /\ call.args[1] # Armband.address
    /\ trace[1].data = <<Headset, Armband>>
    /\ ret = <<[_device |-> <<Armband>>]>>

\* ------------------------------------------------------------ the codec
\* a command was constructed and its data property was read
Encoded(op) == pc = "done" /\ call.op = op /\ Len(trace) = 2
\* the opcode and the payload length of each command variant
Opcode ==
    [SetMode |-> 1, Vibrate |-> 3, DeepSleep |-> 4, LED |-> 6, Vibrate2 |-> 7,
     SetSleepMode |-> 9, Unlock |-> 10, UserAction |-> 11]
PayloadLength ==
    [SetMode |-> 3, Vibrate |-> 1, DeepSleep |-> 0, LED |-> 6, Vibrate2 |-> 3,
     SetSleepMode |-> 1, Unlock |-> 1, UserAction |-> 1]
Byte == 0..255
\* the parameters of the constructed command are in range
InRange ==
    CASE call.op = "LED" -> \A k \in 1..2, i \in 1..3 : call.args[k][i] \in Byte
      [] call.op = "Vibrate2" -> call.args[1] \in 0..65535 /\ call.args[2] \in Byte
      [] OTHER -> TRUE

\* C23: the frame of a command of any variant with in-range parameters is
\* the opcode of the variant (1, 3, 4, 6, 7, 9, 10, 11), the payload length
\* of the variant (3, 1, 0, 6, 3, 1, 1, 1), then the payload and nothing
\* else.
C23_FrameIsOpcodeLengthPayload ==
    \A op \in DOMAIN Opcode :
        (Encoded(op) /\ InRange) =>
            /\ result = None
            /\ Len(trace[2].data) = PayloadLength[op]
            /\ ret = <<<<Opcode[op], PayloadLength[op]>> \o trace[2].data>>

C23_Witness ==
    /\ Encoded("LED")
    /\ ret = <<<<6, 6, 0, 255, 255, 255, 255, 255>>>>

\* C24: the frame of SetMode(classifier, emg, imu) carries the values of
\* emg, imu, classifier in that order.
C24_SetModePayloadOrder ==
    Encoded("SetMode") =>
        ret = <<<<1, 3, EMGModeValue(call.args[2]), IMUModeValue(call.args[3]),
                  ClassifierModeValue(call.args[1])>>>>

C24_Witness ==
    /\ Encoded("SetMode")
    /\ call.args = <<"ENABLED", "SEND_FILT", "SEND_ALL">>
    /\ ret = <<<<1, 3, 1, 3, 1>>>>

\* C25: the payload of Vibrate2(duration, strength), duration in 0..65535
\* and strength in 0..255, is the high byte of the duration, its low byte,
\* and the strength, so that the duration is 256 * high + low.
C25_Vibrate2BigEndian ==
    (Encoded("Vibrate2") /\ InRange) =>
        /\ result = None
        /\ trace[2].data = <<call.args[1] \div 256, call.args[1] % 256, call.args[2]>>
        /\ call.args[1] = 256 * ret[1][3] + ret[1][4]
        /\ ret[1][5] = call.args[2]

C25_Witness ==
    /\ Encoded("Vibrate2")
    /\ call.args = <<4660, 128>>
    /\ ret = <<<<7, 3, 18, 52, 128>>>>

\* C26 as claimed: every command whose construction succeeded encodes
\* without error.
C26_EncodingTotal == [][(pc = "built" /\ pc' = "done") => result' = None]_vars

\* --------------------------------------------------------------- Myo.led
\* a colour of exactly three components, each an integer in 0..255
ValidColour(colour) == Len(colour) = 3 /\ \A i \in 1..3 : colour[i] \in Byte

RequiredLength ==
    [EMGData |-> 16, FVData |-> 17, IMUData |-> 20, MotionEvent |-> 3,
     ClassifierEvent |-> 6, FirmwareVersion |-> 8, FirmwareInfo |-> 20]
\* the buffer the completed constructor call was given
Buffer == call.args[1]
\* the completed constructor call of class cls had a buffer of the
\* required length
Sized(cls) == Completed(cls) /\ Len(Buffer) = RequiredLength[cls]

\* C28: the constructor of each fixed-length class, given a buffer whose
\* length is not the required one (EMGData 16, FVData 17, IMUData 20,
\* MotionEvent 3, ClassifierEvent 6, FirmwareVersion 8, FirmwareInfo 20),
\* raises and makes no object.
C28_WrongLengthFails ==
    \A cls \in DOMAIN RequiredLength :
        (Completed(cls) /\ Len(Buffer) # RequiredLength[cls]) =>
            /\ result \in DecodeErrors
            /\ ret = <<>>

C28_Witness ==
    /\ Completed("EMGData")
    /\ Len(Buffer) = 17
    /\ result = "struct.error"
    /\ ret = <<>>

\* C29: a ClassifierEvent whose tag is not in 1..6, an ARM_SYNCED event
\* (tag 1) whose arm or x-direction byte is none of 1, 2, 255, a POSE event
\* (tag 3) whose pose is none of 0..5, 65535, a SYNC_FAILED event (tag 6)
\* whose result is not 1, a MotionEvent whose tag is not in 0..2 and a
\* FirmwareVersion whose hardware revision is not in 0..3 make the
\* constructor raise ValueError: no object with a default member is made.
C29_UnknownEnumFails ==
    /\ (/\ Sized("ClassifierEvent")
        /\ \/ Buffer[1] \notin 1..6
           \/ Buffer[1] = 1 /\ (Buffer[2] \notin {1, 2, 255} \/ Buffer[3] \notin {1, 2, 255})
           \/ Buffer[1] = 3 /\ Buffer[2] + 256 * Buffer[3] \notin (0..5) \cup {65535}
           \/ Buffer[1] = 6 /\ Buffer[2] # 1)
       => (result = "ValueError" /\ ret = <<>>)
    /\ (Sized("MotionEvent") /\ Buffer[1] \notin 0..2)
       => (result = "ValueError" /\ ret = <<>>)
    /\ (Sized("FirmwareVersion") /\ Buffer[7] + 256 * Buffer[8] \notin 0..3)
       => (result = "ValueError" /\ ret = <<>>)

C29_Witness ==
    /\ Completed("ClassifierEvent")
    /\ Buffer = <<3, 6, 0, 255, 255, 255>>
    /\ result = "ValueError"

\* the tag of an event buffer, followed by the bytes of its active variant
Active(cls, b) ==
    IF cls = "ClassifierEvent"
    THEN CASE b[1] \in {1, 3} -> <<b[1], b[2], b[3]>>
           [] b[1] = 6 -> <<b[1], b[2]>>
           [] OTHER -> <<b[1]>>
    ELSE IF b[1] = 0 THEN <<b[1], b[2], b[3]>> ELSE <<b[1]>>
\* the buffers of the required length that agree with the decoded one on
\* the tag and on the active variant
Alike(cls) ==
    {b \in DecoderBuffers[cls] :
        Len(b) = RequiredLength[cls] /\ Active(cls, b) = Active(cls, Buffer)}

\* C30: a ClassifierEvent or MotionEvent constructor call on a buffer of
\* the required length ends as the call on any other such buffer with the
\* same tag and the same bytes of the active variant (ARM_SYNCED bytes 1
\* and 2, POSE bytes 1-2, SYNC_FAILED byte 1, TAP bytes 1 and 2, no byte
\* for the other tags) ends: with an equal object when it made one, and by
\* raising if and only if the other raises.
C30_OnlyActiveBytesCount ==
    \A cls \in {"ClassifierEvent", "MotionEvent"} :
        Sized(cls) =>
            \A other \in Alike(cls) :
                LET v == Construct(cls, other)
                IN  IF v.type = "error"
                    THEN result = v.err /\ ret = <<>>
                    ELSE result = None /\ ret = <<v>>

C30_Witness ==
    /\ Completed("MotionEvent")
    /\ Buffer = <<1, 255, 7>>
    /\ result = None
    /\ <<1, 0, 0>> \in Alike("MotionEvent")

\* the named members ClassifierEvent.to_dict() shows of the decoded event
Shown == ClassifierEvent_to_dict(ret[1])

\* C31: a ClassifierEvent decoded from a 6-byte buffer is ARM_SYNCED for
\* tag 1, with the arm of byte 1 and the x-direction of byte 2 (1, 1 being
\* RIGHT, TOWARD_WRIST); POSE for tag 3, with the pose of the little-endian
\* uint16 of bytes 1-2 (1 being FIST); SYNC_FAILED for tag 6, with its
\* result; and ARM_UNSYNCED, UNLOCKED, LOCKED for the tags 2, 4, 5, with no
\* further field.
C31_ClassifierEventVariants ==
    (Sized("ClassifierEvent") /\ result = None) =>
        /\ ret[1].t = Buffer[1]
        /\ Buffer[1] = 1 =>
              /\ ret[1].fields = <<Buffer[2], Buffer[3]>>
              /\ Shown[1] = <<"type", "ARM_SYNCED">>
              /\ Shown[2][1] = "arm" /\ Shown[2][2] = MemberName("Arm", Buffer[2])
              /\ Shown[3][2] = MemberName("XDirection", Buffer[3])
              /\ (Buffer[2] = 1 /\ Buffer[3] = 1) =>
                    (Shown[2][2] = "RIGHT" /\ Shown[3][2] = "TOWARD_WRIST")
        /\ Buffer[1] = 3 =>
              /\ ret[1].fields = <<Buffer[2] + 256 * Buffer[3]>>
              /\ Shown[1] = <<"type", "POSE">>
              /\ Shown[2] = <<"pose", MemberName("Pose", Buffer[2] + 256 * Buffer[3])>>
              /\ (Buffer[2] = 1 /\ Buffer[3] = 0) => Shown[2][2] = "FIST"
        /\ Buffer[1] = 6 =>
              /\ ret[1].fields = <<Buffer[2]>>
              /\ Shown = <<<<"type", "SYNC_FAILED">>, <<"sync-result", "FAILED_TOO_HARD">>>>
        /\ Buffer[1] = 2 => (ret[1].fields = <<>> /\ Shown = <<<<"type", "ARM_UNSYNCED">>>>)
        /\ Buffer[1] = 4 => (ret[1].fields = <<>> /\ Shown = <<<<"type", "UNLOCKED">>>>)
        /\ Buffer[1] = 5 => (ret[1].fields = <<>> /\ Shown = <<<<"type", "LOCKED">>>>)

C31_Witness ==
    /\ Completed("ClassifierEvent")
    /\ Buffer = <<1, 1, 1, 0, 0, 0>>
    /\ result = None
    /\ Shown = <<<<"type", "ARM_SYNCED">>, <<"arm", "RIGHT">>, <<"x-diraction", "TOWARD_WRIST">>>>

\* a byte as a signed 8-bit value
Signed(b) == IF b >= 128 THEN b - 256 ELSE b

\* C32: the EMGData of a 16-byte buffer has as sample1 the bytes 0..7 and
\* as sample2 the bytes 8..15, in the order of the buffer, each read as a
\* signed 8-bit value (128..255 being -128..-1).
C32_EMGSamplesSigned ==
    Sized("EMGData") =>
        /\ result = None
        /\ DOMAIN ret[1].sample1 = 1..8
        /\ DOMAIN ret[1].sample2 = 1..8
        /\ \A i \in 1..8 :
              /\ ret[1].sample1[i] = Signed(Buffer[i])
              /\ ret[1].sample2[i] = Signed(Buffer[8 + i])
              /\ ret[1].sample1[i] \in -128..127
              /\ ret[1].sample2[i] \in -128..127

C32_Witness ==
    /\ Completed("EMGData")
    /\ Buffer = [i \in 1..16 |-> 120 + i]
    /\ ret[1].sample1 = <<121, 122, 123, 124, 125, 126, 127, -128>>
    /\ ret[1].sample2 = <<-127, -126, -125, -124, -123, -122, -121, -120>>

\* the little-endian uint16 at the bytes i, i + 1 of the decoded buffer
\* (bytes counted from 0)
Word(i) == Buffer[i + 1] + 256 * Buffer[i + 2]
\* the number a sequence of decimal digits writes
RECURSIVE Number(_)
Number(digits) ==
    IF digits = <<>>
    THEN 0
    ELSE 10 * Number(SubSeq(digits, 1, Len(digits) - 1))
         + (CHOOSE d \in 0..9 : <<"0", "1", "2", "3", "4", "5", "6", "7", "8", "9">>[d + 1]
                                    = digits[Len(digits)])
\* the rendering of the decoded FirmwareVersion and the places of its dots
Rendered == FirmwareVersion_str(ret[1])
Dots == {i \in 1..Len(Rendered) : Rendered[i] = "."}
Dot(k) == CHOOSE i \in Dots : Cardinality({j \in Dots : j < i}) = k - 1

\* C33: a FirmwareVersion decoded from an 8-byte buffer holds the four
\* little-endian uint16 of the buffer as major, minor, patch and hardware
\* revision, and renders as the decimal numbers major, minor, patch and the
\* name of the revision (0 UNKNOWN, 1 REVC, 2 REVD, 3 REVS), separated by
\* dots; the bytes of 1, 5, 1970, 2 render as 1.5.1970.REVD.
C33_FirmwareVersionRenders ==
    (Sized("FirmwareVersion") /\ result = None) =>
        /\ ret[1].major = Word(0)
        /\ ret[1].minor = Word(2)
        /\ ret[1].patch = Word(4)
        /\ ret[1].hardware_rev = Word(6)
        /\ Cardinality(Dots) = 3
        /\ Number(SubSeq(Rendered, 1, Dot(1) - 1)) = Word(0)
        /\ Number(SubSeq(Rendered, Dot(1) + 1, Dot(2) - 1)) = Word(2)
        /\ Number(SubSeq(Rendered, Dot(2) + 1, Dot(3) - 1)) = Word(4)
        /\ SubSeq(Rendered, Dot(3) + 1, Len(Rendered))
              = <<<<"UNKNOWN", "REVC", "REVD", "REVS">>[Word(6) + 1]>>
        /\ Buffer = <<1, 0, 5, 0, 178, 7, 2, 0>> =>
              Rendered = <<"1", ".", "5", ".", "1", "9", "7", "0", ".", "REVD">>

C33_Witness ==
    /\ Completed("FirmwareVersion")
    /\ Buffer = <<1, 0, 5, 0, 178, 7, 2, 0>>
    /\ result = None
    /\ ret[1].patch = 1970

\* the entry of key k in the to_dict() of the decoded FirmwareInfo
ShownEntry(k) ==
    LET d == FirmwareInfo_to_dict(ret[1])
    IN  d[CHOOSE i \in 1..Len(d) : d[i][1] = k][2]

\* C34: the unlock_pose entry of the to_dict() of a FirmwareInfo decoded
\* from a well-formed 20-byte buffer is the pose named by the little-endian
\* uint16 at bytes 6-7, whatever the has_custom_classifier byte (byte 10).
C34_UnlockPoseShown ==
    (Sized("FirmwareInfo") /\ result = None) =>
        /\ ShownEntry("unlock_pose")[1] = "str"
        /\ ShownEntry("unlock_pose")[2] = MemberName("Pose", Word(6))

\* C35: in a connected session driven by setup(), start() and stop() in
\* any order, no handle is subscribed when a stop() has returned (start()
\* being the only operation of such a session that subscribes).
C35_StopUnsubscribesAll ==
    Returned("stop") => \A h \in NotifyHandles : subscribed[h] = None

\* C36: in the state a returning connect() leaves, start() and stop() end
\* with the modes-not-set error whatever the transport answers: the modes
\* an earlier connection stored do not count on the new connection.
C36_ReconnectNeedsSetup ==
    Returned("connect") =>
        /\ \A d \in MyoClient_start(Ctx) : d.err = ModesNotSetError
        /\ \A d \in MyoClient_stop(Ctx) : d.err = ModesNotSetError

\* C37: on a client created with aggregate_all, a returning setup() has
\* stored (DISABLED, SEND_FILT, SEND_DATA) and sent it in its SetMode
\* command whatever triple was passed, and a returning start() has
\* subscribed FV_DATA and IMU_DATA and no other handle, so that
\* notify_callback is notified of both kinds of sample an AggregatedData
\* is made of.
C37_AggregateAllEnforcesFVAndIMU ==
    aggregate_all =>
        /\ Returned("setup") =>
              /\ StoredTriple = <<"DISABLED", "SEND_FILT", "SEND_DATA">>
              /\ \E i \in 1..Len(trace) :
                    /\ trace[i].op = "write"
                    /\ trace[i].handle = COMMAND
                    /\ trace[i].data = <<1, 3, 1, 1, 0>>
              /\ \A i \in 1..Len(trace) :
                    (trace[i].op = "write" /\ trace[i].data[1] = 1)
                        => trace[i].data = <<1, 3, 1, 1, 0>>
        /\ Returned("start") =>
              /\ HandlesOf(trace, "start_notify") = <<FV_DATA, IMU_DATA>>
              /\ subscribed[FV_DATA] = "notify_callback"
              /\ subscribed[IMU_DATA] = "notify_callback"

C37_Witness ==
    /\ aggregate_all
    /\ Returned("start")
    /\ calls = 2
    /\ StoredTriple = <<"DISABLED", "SEND_FILT", "SEND_DATA">>
    /\ subscribed[IMU_DATA] = "notify_callback"

\* the SetMode frame for the EMG mode e, the IMU mode i and the classifier
\* mode c
ModeFrame(e, i, c) ==
    <<1, 3,
      CASE e = "NONE" -> 0 [] e = "SEND_FILT" -> 1 [] e = "SEND_EMG" -> 2 [] e = "SEND_RAW" -> 3,
      CASE i = "NONE" -> 0 [] i = "SEND_DATA" -> 1 [] i = "SEND_EVENTS" -> 2
        [] i = "SEND_ALL" -> 3 [] i = "SEND_RAW" -> 4,
      CASE c = "DISABLED" -> 0 [] c = "ENABLED" -> 1>>
\* the completed call wrote one frame, to the COMMAND handle
WroteFrame(frame) ==
    /\ Len(trace) = 1
    /\ trace[1].op = "write"
    /\ trace[1].handle = COMMAND
    /\ trace[1].data = frame

\* C38: a returning set_mode of either client wrote [0x01, 0x03, e, i, c]
\* to the COMMAND handle, e, i and c being the values of the modes the
\* caller passed as EMG, IMU and classifier mode: core.MyoClient.set_mode
\* takes (classifier_mode, emg_mode, imu_mode), client.MyoClient.set_mode
\* takes (emg_mode, imu_mode, classifier_mode).
C38_SetModeKeepsRoles ==
    /\ Returned("set_mode") => WroteFrame(ModeFrame(call.args[2], call.args[3], call.args[1]))
    /\ Returned("client.set_mode") =>
            WroteFrame(ModeFrame(call.args[1], call.args[2], call.args[3]))

\* --------------------------------------------------------- with_device
\* the mac argument of the with_device call in progress
Mac == call.args[1]
\* the detected device dev is what with_device(mac) looks for
Wanted(dev) ==
    IF Mac # <<>>
    THEN SameIgnoringCase(Mac, dev.address)
    ELSE \E k \in 1..Len(dev.service_uuids) : SameIgnoringCase(MYO_SERVICE, dev.service_uuids[k])
\* a pass of the discovery loop is one scan, by MAC for a non-empty mac
\* and by service UUID otherwise, and it finds a device exactly when the
\* scan detected a wanted one
SingleAttempt ==
    (pc = "scan" /\ m = None) =>
        /\ Len(trace') = 1
        /\ trace'[1].op = "scan"
        /\ trace'[1].cb = IF Mac # <<>> THEN "match_myo_mac" ELSE "match_myo_uuid"
        /\ m' # None <=> /\ trace'[1].out = "ok"
                         /\ \E i \in 1..Len(trace'[1].data) : Wanted(trace'[1].data[i])
        /\ m' # None => pc' = "scan"
\* once an attempt has found a device the next step is connect(), which
\* ends with_device: it returns when connect() returns
ConnectWhenFound ==
    (pc = "scan" /\ m # None) =>
        /\ Len(trace') = 1
        /\ trace'[1].op = "connect"
        /\ pc' = IF trace'[1].out = "ok" THEN "done" ELSE "lost"
\* with_device returns a client that holds a device and is connected
ReturnsConnected ==
    (pc = "scan" /\ pc' = "done") => (m # None /\ m' = m /\ client' # None /\ link')
\* an attempt that found a device is followed by the end of with_device
FoundLeadsToEnd == (pc = "scan" /\ m # None) ~> (pc # "scan")

\* C39 as claimed: with_device repeats single attempts (by MAC for a
\* non-empty mac, by service UUID otherwise) until one finds a device, then
\* runs connect() and returns a connected client when connect() returns;
\* it never ends while no attempt has found a device.
C39_WithDeviceEndsOnlyWhenFound ==
    /\ [][SingleAttempt /\ ConnectWhenFound /\ ReturnsConnected]_vars
    /\ [][(pc = "scan" /\ pc' # "scan") => m # None]_vars
    /\ FoundLeadsToEnd

\* C39 as amended: with_device repeats single attempts (by MAC for a
\* non-empty mac, by service UUID otherwise) until one finds a device, then
\* runs connect() and returns a connected client when connect() returns;
\* it never returns while no attempt has found a device, and it ends
\* without a device only by raising the exception of a scan by service
\* UUID (a scan by MAC that raises counts as an attempt that found none).
C39_WithDeviceReturnsOnlyWhenFound ==
    /\ [][SingleAttempt /\ ConnectWhenFound /\ ReturnsConnected]_vars
    /\ [][(pc = "scan" /\ pc' # "scan" /\ m = None)
            => /\ Mac = <<>>
               /\ pc' = "lost"
               /\ trace'[1].out # "ok"
               /\ result' = trace'[1].out]_vars
    /\ [][(pc = "scan" /\ m = None /\ Mac # <<>> /\ trace'[1].out # "ok")
            => (pc' = "scan" /\ m' = None)]_vars
    /\ FoundLeadsToEnd

C39_Witness ==
    /\ pc = "done"
    /\ call.op = "with_device"
    /\ Mac # <<>>
    /\ m # None
    /\ link
    /\ ret = <<[_device |-> <<Armband>>]>>

\* ------------------------------------------------- the aggregator lock
\* on_data of task t has stored its sample, which it does under the lock
Acquired(t) == \E i \in 1..Len(ingested) : ingested[i].task = t

\* C40: with FV and IMU notifications delivered concurrently and every
\* on_aggregated_data call ending, each on_data call that has to wait for
\* the lock gets it, each notification that was delivered is handled to
\* its end, and the lock is held by no task that has ended, whether
\* on_aggregated_data returned or raised.
C40_LockNeverDeadlocks ==
    /\ \A t \in Tasks : (tasks[t].pc = "lock") ~> Acquired(t)
    /\ \A t \in Tasks : (tasks[t].pc # "new") ~> (tasks[t].pc = "done")
    /\ [](\A t \in Tasks : tasks[t].pc \in {"new", "lock", "done"} => lock # t)
    /\ []((\A t \in Tasks : tasks[t].pc \in {"new", "done"}) => lock = 0)

C40_Witness ==
    /\ tasks[2].err = "HookError"
    /\ tasks[3].pc = "done"
    /\ tasks[3].err = None
    /\ Acquired(3)
    /\ \E i \in 1..Len(hooks) : hooks[i].task = 3
    /\ lock = 0

====
